---------------------------- MODULE Spec2Model ----------------------------
(***************************************************************************)
(* Model of the wallet-sync pipeline of onchain-wallets-dashboard:         *)
(*   - services/alchemy (src/unnamed/part_000): the transfer aggregator,   *)
(*     the intent classifier, the review policy and fetchTransactions;     *)
(*   - routes (src/unnamed/part_002): the sync handler, the review         *)
(*     endpoint and the Telegram webhook;                                  *)
(*   - storage (src/server/storage.ts): the transactions table.            *)
(*                                                                         *)
(* Conventions.  A nullable string is a string or NULL; a nullable number  *)
(* is <<>> (null) or <<n>>.  Amounts are counted in hundredths, so 100 is  *)
(* 1.00, and a classification confidence is counted in hundredths too      *)
(* ("0.95" is 95, "1.0" is 100).                                           *)
(***************************************************************************)
EXTENDS Integers, Sequences, FiniteSets, TLC

VARIABLES
    fromResult,   \* classifier pipeline: the provider's answer to the fromAddress query
    toResult,     \* classifier pipeline: the provider's answer to the toAddress query
    txMap,        \* classifier pipeline: the groups, in Map insertion order
    fetched,      \* classifier pipeline: the InsertTransaction list returned
    cpc,          \* classifier pipeline: "input" before the call, "done" after it
    ledger,       \* what the provider has indexed of the chain
    txs,          \* the transactions table, a sequence of rows in insertion order
    sync,         \* per request slot: the state of one POST /api/wallets/:id/sync
    rules,        \* the classification_rules table, rows in insertion order
    ruleOutcome,  \* rule engine: the transaction after the last rule application
    taxLots,      \* the tax_lots table, rows in insertion order
    disposals,    \* the disposals table, rows in insertion order
    summaries,    \* the report summaries answered so far, by year and user
    reply         \* the answer to the last classification request, where recorded

vars == <<fromResult, toResult, txMap, fetched, cpc, ledger, txs, sync,
          rules, ruleOutcome, taxLots, disposals, summaries, reply>>

rulesVars == <<rules, ruleOutcome>>
taxVars == <<taxLots, disposals, summaries>>

-----------------------------------------------------------------------------
(* Bounds *)

\* Transfers in the two provider answers of one fetch, together.
MaxTransfers == 2

\* Rows that manual classification requests may have marked, together.
MaxUserClassified == 2

-----------------------------------------------------------------------------
(* Strings, addresses and String.prototype.toLowerCase *)

NULL == "null"

NULL_ADDRESS == "0x0000000000000000000000000000000000000000"

KNOWN_DEX_ROUTERS ==
    { "0x7a250d5630b4cf539739df2c5dacb4c659f2488d",
      "0xe592427a0aece92de3edee1f18e0157c05861564",
      "0x68b3465833fb72a70ecdf485e0e4c7bd8665fc45",
      "0xef1c6e67703c7bd7107eed8303fbe6ec2554bf6b",
      "0x1111111254eeb25477b68fb85ed929f73a960582",
      "0xdef1c0ded9bec7f1a1670819833240f027b25eff",
      "0xd9e1ce17f2641f24ae83637ab66a2cca9c378b9f" }

\* The strings of the model that are not already lower case, each with its
\* lower-case form.  Every other string of the model is its own lower case.
CasePairs ==
    { <<"0xAA", "0xaa">>,
      <<"0xBB", "0xbb">>,
      <<"0xCC", "0xcc">>,
      <<"0x7a250d5630B4cF539739dF2C5dAcb4c659F2488D",
        "0x7a250d5630b4cf539739df2c5dacb4c659f2488d">>,
      <<"WETH", "weth">>,
      <<"DAI", "dai">>,
      <<"ETH", "eth">>,
      <<"SWAP", "swap">>,
      <<"Income", "income">>,
      <<"Classify", "classify">> }

toLowerCase(s) ==
    IF \E p \in CasePairs : p[1] = s
    THEN (CHOOSE p \in CasePairs : p[1] = s)[2]
    ELSE s

\* t.to?.toLowerCase(): undefined (here NULL) when the field is null.
optLowerCase(s) == IF s = NULL THEN NULL ELSE toLowerCase(s)

\* JavaScript truthiness of a nullable number: null and 0 are falsy.
NoValue == <<>>
Num(n) == <<n>>
\* Mutant: only null is falsy.
truthyNumberNullOnly(v) == v # NoValue

truthyNumber(v) == v # NoValue /\ v[1] # 0
numberOrZero(v) == IF truthyNumber(v) THEN v[1] ELSE 0

-----------------------------------------------------------------------------
(* The label set of shared/schema.ts *)

CLASSIFICATION_TYPES ==
    { "swap", "lp_deposit", "lp_withdraw", "stake", "unstake", "borrow",
      "repay", "bridge", "airdrop", "vesting", "nft_mint", "nft_sale",
      "reward", "interest", "liquidation", "wrap", "unwrap", "migration",
      "self_transfer", "income", "expense", "unknown" }


-----------------------------------------------------------------------------
(* AlchemyTransfer records and the transfers the provider answers with *)

\* Every transfer of one transaction shares its block and block timestamp.
blockNumOf(hash) == IF hash = "h1" THEN "0x10" ELSE "0x11"
blockTimestampOf(hash) == IF hash = "h1" THEN "2024-03-01" ELSE "2025-03-01"

TokenContract == "0xc0ffee"
RouterMixedCase == "0x7a250d5630B4cF539739dF2C5dAcb4c659F2488D"

\* An AlchemyTransfer.  External and internal transfers move the native asset
\* and carry no contract address; token transfers carry the token's.
Transfer(hash, from, to, value, asset, category) ==
    [ hash |-> hash, blockNum |-> blockNumOf(hash),
      from |-> from, to |-> to, value |-> value, asset |-> asset,
      category |-> category,
      rawContract |-> [ address |-> IF category \in {"external", "internal"}
                                    THEN NULL ELSE TokenContract ],
      metadata |-> [ blockTimestamp |-> blockTimestampOf(hash) ] ]

\* Value-bearing transfers: the wallet (as the provider spells it, in lower
\* case) sends, receives, receives from a router, receives from the null address.
ValueTransfers ==
    { Transfer("h1", d[1], d[2], Num(100), p[1], p[2]) :
        d \in { <<"0xaa", "0xdd">>, <<"0xdd", "0xaa">>,
                <<RouterMixedCase, "0xaa">>, <<NULL_ADDRESS, "0xaa">> },
        p \in { <<"ETH", "external">>, <<"WETH", "erc20">>,
                <<"weth", "erc20">>, <<"DAI", "erc20">> } }

\* Zero and null amounts, internal transfers, unnamed tokens, NFT categories.
OddTransfers ==
    { Transfer("h1", d[1], d[2], p[1], p[2], p[3]) :
        d \in { <<"0xaa", "0xdd">>, <<"0xdd", "0xaa">> },
        p \in { <<Num(0), "ETH", "external">>, <<Num(100), "ETH", "internal">>,
                <<Num(100), NULL, "erc20">>, <<NoValue, NULL, "erc721">>,
                <<NoValue, NULL, "erc1155">> } }

\* Self transfers, a missing recipient, transfers that do not touch the
\* wallet, a mixed-case recipient, an NFT mint, an internal call of no value.
SpecialTransfers ==
    { Transfer("h1", "0xdd", "0xaa", Num(0), "ETH", "internal"),
      Transfer("h1", "0xaa", "0xAA", Num(100), "ETH", "external"),
      Transfer("h1", "0xaa", NULL, Num(100), "ETH", "external"),
      Transfer("h1", "0xdd", "0xee", Num(100), "ETH", "external"),
      Transfer("h1", NULL_ADDRESS, "0xee", Num(100), "DAI", "erc20"),
      Transfer("h1", "0xdd", RouterMixedCase, Num(100), "WETH", "erc20"),
      Transfer("h1", "0xaa", "0x7a250d5630b4cf539739df2c5dacb4c659f2488d",
               Num(100), "WETH", "erc20"),
      Transfer("h1", "0xdd", "0xAA", Num(100), "DAI", "erc20"),
      Transfer("h1", "0xAA", "0xdd", Num(100), "DAI", "erc20"),
      Transfer("h1", "0xdd", "0xdd", Num(100), "ETH", "external"),
      Transfer("h1", NULL_ADDRESS, "0xaa", NoValue, NULL, "erc721") }

\* Transfers of a second transaction.
OtherHashTransfers ==
    { Transfer("h2", "0xaa", "0xdd", Num(100), "ETH", "external"),
      Transfer("h2", "0xdd", "0xaa", Num(100), "DAI", "erc20"),
      Transfer("h2", "0xaa", "0xaa", Num(100), "ETH", "external") }

TransferUniverse ==
    ValueTransfers \cup OddTransfers \cup SpecialTransfers \cup OtherHashTransfers

SeqsUpTo(S, n) == UNION { [1..k -> S] : k \in 0..n }

-----------------------------------------------------------------------------
(* The transfer aggregator: the grouping loop of fetchTransactions *)

\* Mutant: only erc721 counts as an NFT category.
isNftCategoryErc721Only(category) == category = "erc721"

isNftCategory(category) == category = "erc721" \/ category = "erc1155"

leg(transfer) ==
    [ address |-> transfer.rawContract.address,
      symbol |-> transfer.asset,
      amount |-> transfer.value[1] ]

\* One iteration of the loop over allTransfers; wallet is already lower case.
addTransfer(map, transfer, wallet) ==
    LET isOutgoing == toLowerCase(transfer.from) = wallet
        isIncoming == transfer.to # NULL /\ optLowerCase(transfer.to) = wallet
        isNft == isNftCategory(transfer.category)
        isMint == toLowerCase(transfer.from) = NULL_ADDRESS
        pushIn(legs) == IF isIncoming /\ truthyNumber(transfer.value)
                        THEN Append(legs, leg(transfer)) ELSE legs
        pushOut(legs) == IF isOutgoing /\ truthyNumber(transfer.value)
                         THEN Append(legs, leg(transfer)) ELSE legs
        found == { i \in 1..Len(map) : map[i].hash = transfer.hash }
    IN  IF found # {}
        THEN LET i == CHOOSE i \in found : TRUE
                 existing == map[i]
             IN  [ map EXCEPT ![i] =
                     [ existing EXCEPT
                         !.transfers = Append(@, transfer),
                         !.tokensIn = pushIn(@),
                         !.tokensOut = pushOut(@),
                         !.hasNft = @ \/ isNft,
                         !.nftMint = @ \/ (isNft /\ isMint),
                         !.isInternal = @ \/ transfer.category = "internal",
                         !.contractInteraction =
                             @ \/ transfer.rawContract.address # NULL ] ]
        ELSE Append(map,
                 [ hash |-> transfer.hash,
                   blockNum |-> transfer.blockNum,
                   timestamp |-> transfer.metadata.blockTimestamp,
                   transfers |-> <<transfer>>,
                   tokensIn |-> pushIn(<<>>),
                   tokensOut |-> pushOut(<<>>),
                   hasNft |-> isNft,
                   nftMint |-> isNft /\ isMint,
                   isInternal |-> transfer.category = "internal",
                   contractInteraction |-> transfer.rawContract.address # NULL ])

\* A loop that takes the transfers last to first.
RECURSIVE groupFromReversed(_, _, _, _)
groupFromReversed(map, allTransfers, i, wallet) ==
    IF i > Len(allTransfers) THEN map
    ELSE addTransfer(groupFromReversed(map, allTransfers, i + 1, wallet),
                     allTransfers[i], wallet)

RECURSIVE groupFrom(_, _, _, _)
groupFrom(map, allTransfers, i, wallet) ==
    IF i > Len(allTransfers) THEN map
    ELSE groupFrom(addTransfer(map, allTransfers[i], wallet), allTransfers, i + 1, wallet)

\* allTransfers.push(...fromResult.transfers); allTransfers.push(...toResult.transfers)
mergeResults(fromR, toR) == fromR \o toR

\* The txMap built from the two answers, as the sequence of its values in
\* insertion order (the order a Map iterates in).
groupTransfers(fromR, toR, walletAddress) ==
    groupFrom(<<>>, mergeResults(fromR, toR), 1, toLowerCase(walletAddress))

-----------------------------------------------------------------------------
(* The intent classifier and the review policy *)

symbolsOf(legs) ==
    { toLowerCase(legs[i].symbol) : i \in { j \in 1..Len(legs) : legs[j].symbol # NULL } }

\* Mutant: the router set is searched with the addresses as spelled.
interactedWithDexCaseSensitive(tx) ==
    \E i \in 1..Len(tx.transfers) :
        \/ tx.transfers[i].from \in KNOWN_DEX_ROUTERS
        \/ tx.transfers[i].to \in KNOWN_DEX_ROUTERS

interactedWithDex(tx) ==
    \E i \in 1..Len(tx.transfers) :
        \/ toLowerCase(tx.transfers[i].from) \in KNOWN_DEX_ROUTERS
        \/ /\ tx.transfers[i].to # NULL
           /\ toLowerCase(tx.transfers[i].to) \in KNOWN_DEX_ROUTERS

\* Mutant: distinct symbols count only when a router is involved.
hasDistinctTokensWithRouter(tx) ==
    /\ symbolsOf(tx.tokensIn) # {}
    /\ symbolsOf(tx.tokensOut) # {}
    /\ \E s \in symbolsOf(tx.tokensIn) : s \notin symbolsOf(tx.tokensOut)
    /\ interactedWithDex(tx)

hasDistinctTokens(tx) ==
    LET inSymbols == symbolsOf(tx.tokensIn)
        outSymbols == symbolsOf(tx.tokensOut)
    IN  /\ Cardinality(inSymbols) > 0
        /\ Cardinality(outSymbols) > 0
        /\ \E s \in inSymbols : s \notin outSymbols

\* Mutant: every transfer, not some transfer, must come from the null address.
fromNullAddrEvery(tx, wallet) ==
    \A i \in 1..Len(tx.transfers) :
        /\ toLowerCase(tx.transfers[i].from) = NULL_ADDRESS
        /\ tx.transfers[i].to # NULL
        /\ toLowerCase(tx.transfers[i].to) = wallet

fromNullAddr(tx, wallet) ==
    \E i \in 1..Len(tx.transfers) :
        /\ toLowerCase(tx.transfers[i].from) = NULL_ADDRESS
        /\ tx.transfers[i].to # NULL
        /\ toLowerCase(tx.transfers[i].to) = wallet

\* Mutant: the two ends are compared as spelled.
sameEndsCaseSensitive(t) == t.to # NULL /\ t.from = t.to

\* t.from.toLowerCase() === t.to?.toLowerCase()
sameEnds(t) == t.to # NULL /\ toLowerCase(t.from) = toLowerCase(t.to)

\* t.from.toLowerCase() === wallet || t.to?.toLowerCase() === wallet
touchesWallet(t, wallet) ==
    \/ toLowerCase(t.from) = wallet
    \/ (t.to # NULL /\ toLowerCase(t.to) = wallet)

classifyAggregatedTx(tx, walletAddress) ==
    LET wallet == toLowerCase(walletAddress)
        hasIn == Len(tx.tokensIn) > 0
        hasOut == Len(tx.tokensOut) > 0
    IN  IF Len(tx.transfers) = 1 /\ sameEnds(tx.transfers[1]) THEN "self_transfer"
        ELSE IF Len(tx.transfers) = 1 /\ touchesWallet(tx.transfers[1], wallet)
             THEN "transfer"
        ELSE IF tx.hasNft THEN (IF tx.nftMint THEN "nft_mint" ELSE "nft_sale")
        ELSE IF hasIn /\ hasOut
             THEN IF hasDistinctTokens(tx) THEN "swap"
                  ELSE IF interactedWithDex(tx) THEN "swap"
                  ELSE "transfer"
        ELSE IF hasIn /\ ~hasOut
             THEN IF fromNullAddr(tx, wallet) THEN "airdrop"
                  ELSE IF tx.isInternal THEN "reward"
                  ELSE "transfer"
        ELSE IF hasOut /\ ~hasIn THEN "transfer"
        ELSE IF ~hasIn /\ ~hasOut /\ Len(tx.transfers) > 0 THEN "contract_interaction"
        ELSE "unknown"

\* Mutant: contract_interaction is no longer held for review.
shouldNeedReviewUnknownOnly(classification) == classification = "unknown"

shouldNeedReview(classification) ==
    classification = "unknown" \/ classification = "contract_interaction"

\* Mutant: the switch has no case for reward.
getConfidenceWithoutReward(classification) ==
    CASE classification = "swap" -> 80
      [] classification = "transfer" -> 90
      [] classification = "airdrop" -> 70
      [] classification = "nft_mint" -> 90
      [] classification = "nft_sale" -> 70
      [] classification = "self_transfer" -> 95
      [] OTHER -> 0

\* The confidence strings "0.8", "0.9", ... in hundredths.
getConfidence(classification) ==
    CASE classification = "swap" -> 80
      [] classification = "transfer" -> 90
      [] classification = "airdrop" -> 70
      [] classification = "nft_mint" -> 90
      [] classification = "nft_sale" -> 70
      [] classification = "self_transfer" -> 95
      [] classification = "reward" -> 60
      [] OTHER -> 0

-----------------------------------------------------------------------------
(* fetchTransactions: from the two answers to the InsertTransaction list *)

\* parseInt(tx.blockNum, 16) on the block numbers of the model.
parseHex(s) == IF s = "0x10" THEN 16 ELSE 17

RECURSIVE sumValues(_, _)
sumValues(transfers, i) ==
    IF i > Len(transfers) THEN 0
    ELSE numberOrZero(transfers[i].value) + sumValues(transfers, i + 1)

firstContractAddress(transfers) ==
    LET withAddress == { i \in 1..Len(transfers) : transfers[i].rawContract.address # NULL }
    IN  IF withAddress = {} THEN NULL
        ELSE transfers[CHOOSE i \in withAddress : \A j \in withAddress : i <= j].rawContract.address

\* One InsertTransaction, from one group.
insertTransactionOf(tx, walletAddress, chain, walletId) ==
    LET classification == classifyAggregatedTx(tx, walletAddress)
        hasPrimaryIn == Len(tx.tokensIn) > 0
        hasPrimaryOut == Len(tx.tokensOut) > 0
        totalValue == sumValues(tx.transfers, 1)
    IN  [ walletId |-> walletId,
          txHash |-> tx.hash,
          chain |-> chain,
          timestamp |-> tx.timestamp,
          blockNumber |-> parseHex(tx.blockNum),
          tokenIn |-> IF hasPrimaryIn THEN tx.tokensIn[1].address ELSE NULL,
          tokenInAmount |-> IF hasPrimaryIn THEN Num(tx.tokensIn[1].amount) ELSE NoValue,
          tokenInSymbol |-> IF hasPrimaryIn THEN tx.tokensIn[1].symbol ELSE NULL,
          tokenOut |-> IF hasPrimaryOut THEN tx.tokensOut[1].address ELSE NULL,
          tokenOutAmount |-> IF hasPrimaryOut THEN Num(tx.tokensOut[1].amount) ELSE NoValue,
          tokenOutSymbol |-> IF hasPrimaryOut THEN tx.tokensOut[1].symbol ELSE NULL,
          classification |-> classification,
          classificationConfidence |-> getConfidence(classification),
          needsReview |-> shouldNeedReview(classification),
          userClassified |-> FALSE,
          contractAddress |-> firstContractAddress(tx.transfers),
          valueUsd |-> IF totalValue > 0 THEN Num(totalValue) ELSE NoValue,
          isSpam |-> FALSE,
          isDust |-> totalValue > 0 /\ totalValue < 100 ]

\* The success path of fetchTransactions: merge, group, classify each group.
buildTransactions(fromR, toR, walletAddress, chain, walletId) ==
    LET map == groupTransfers(fromR, toR, walletAddress)
    IN  [ i \in 1..Len(map) |-> insertTransactionOf(map[i], walletAddress, chain, walletId) ]

-----------------------------------------------------------------------------
(* Wallets and their owners *)

Users == { "u1", "u2" }

\* The wallets table: u1 holds two wallets, u2 one.
Wallets ==
    { [ id |-> "w1", userId |-> "u1", address |-> "0xAA", chain |-> "ethereum" ],
      [ id |-> "w2", userId |-> "u1", address |-> "0xBB", chain |-> "ethereum" ],
      [ id |-> "w3", userId |-> "u2", address |-> "0xCC", chain |-> "ethereum" ] }

WalletIds == { w.id : w \in Wallets }

walletById(id) == CHOOSE w \in Wallets : w.id = id

\* The wallet the classifier pipeline is run for.
PipelineWallet == walletById("w1")

-----------------------------------------------------------------------------
(* The classifier pipeline: one call of fetchTransactions on given answers *)

pipelineVars == <<fromResult, toResult, txMap, fetched, cpc>>

\* The provider is an external service: its two answers are any transfers.
InitPipeline ==
    /\ fromResult \in SeqsUpTo(TransferUniverse, MaxTransfers)
    /\ toResult \in SeqsUpTo(TransferUniverse, MaxTransfers - Len(fromResult))
    /\ txMap = <<>>
    /\ fetched = <<>>
    /\ cpc = "input"

PipelineOff ==
    /\ fromResult = <<>>
    /\ toResult = <<>>
    /\ txMap = <<>>
    /\ fetched = <<>>
    /\ cpc = "off"

-----------------------------------------------------------------------------
(* The upstream provider of the running system *)

\* The chain the system runs against: a transfer between u1's two wallets, two
\* zero-value calls of one transaction sent by w1, a token receipt of u2's wallet.
ChainTransfers ==
    << Transfer("h1", "0xaa", "0xbb", Num(100), "ETH", "external"),
       Transfer("h2", "0xaa", "0xdd", Num(0), "ETH", "external"),
       Transfer("h2", "0xaa", "0xdd", Num(0), "ETH", "external"),
       Transfer("h3", "0xdd", "0xcc", Num(100), "DAI", "erc20") >>

\* What the provider has indexed: the chain up to some height.
Ledgers == { SubSeq(ChainTransfers, 1, k) : k \in 0..Len(ChainTransfers) }

sentBy(transfer, address) == toLowerCase(transfer.from) = toLowerCase(address)
receivedBy(transfer, address) ==
    transfer.to # NULL /\ toLowerCase(transfer.to) = toLowerCase(address)

\* fetchPage("from") and fetchPage("to"): alchemy_getAssetTransfers with
\* fromAddress, resp. toAddress, set to the wallet's address.
fetchPage(chainData, direction, walletAddress) ==
    IF direction = "from"
    THEN SelectSeq(chainData, LAMBDA t : sentBy(t, walletAddress))
    ELSE SelectSeq(chainData, LAMBDA t : receivedBy(t, walletAddress))

fetchTransactions(chainData, walletAddress, chain, walletId) ==
    buildTransactions(fetchPage(chainData, "from", walletAddress),
                      fetchPage(chainData, "to", walletAddress),
                      walletAddress, chain, walletId)

\* How the provider stands when a sync asks: the API key is missing, the
\* request of the "from" page or of the "to" page fails, or both pages come.
Upstreams == { "ok", "not_configured", "from_failed", "to_failed" }

\* A fetch that takes a failed "to" page for an empty one.
fetchResultToleratingToPage(upstream, chainData, walletAddress, chain, walletId) ==
    CASE upstream = "not_configured" -> [ transactions |-> <<>>, error |-> "not_configured" ]
      [] upstream = "from_failed" -> [ transactions |-> <<>>, error |-> "fetch_failed" ]
      [] upstream = "to_failed" ->
            [ transactions |-> buildTransactions(fetchPage(chainData, "from", walletAddress),
                                                 <<>>, walletAddress, chain, walletId),
              error |-> NULL ]
      [] OTHER -> [ transactions |-> fetchTransactions(chainData, walletAddress, chain, walletId),
                    error |-> NULL ]

\* What fetchTransactions returns: { transactions, error }.  A failed page
\* throws inside the try block and the catch returns no transactions.
fetchResult(upstream, chainData, walletAddress, chain, walletId) ==
    CASE upstream = "not_configured" -> [ transactions |-> <<>>, error |-> "not_configured" ]
      [] upstream \in { "from_failed", "to_failed" } ->
            [ transactions |-> <<>>, error |-> "fetch_failed" ]
      [] OTHER -> [ transactions |-> fetchTransactions(chainData, walletAddress, chain, walletId),
                    error |-> NULL ]

-----------------------------------------------------------------------------
(* DatabaseStorage: the transactions table.  A row's id is its position. *)

userWalletIds(userId) == { w.id : w \in { x \in Wallets : x.userId = userId } }

getWallet(id, userId) == { w \in Wallets : w.id = id /\ w.userId = userId }

\* Mutant: a lookup by id alone, whoever owns the wallet.
getTransactionAnyOwner(table, id, userId) == { i \in 1..Len(table) : i = id }

\* The set holding the id when the row exists and belongs to a wallet of the
\* user; empty otherwise (undefined).
getTransaction(table, id, userId) ==
    { i \in 1..Len(table) : i = id /\ table[i].walletId \in userWalletIds(userId) }

\* Mutant: a lookup that passes over the rows a user has classified.
getTransactionByHashUnclassified(table, txHash, userId) ==
    { i \in 1..Len(table) :
        /\ table[i].txHash = txHash /\ table[i].walletId \in userWalletIds(userId)
        /\ ~table[i].userClassified }

\* The rows with this hash in any wallet of the user; the handler only asks
\* whether there is one.
getTransactionByHash(table, txHash, userId) ==
    { i \in 1..Len(table) :
        table[i].txHash = txHash /\ table[i].walletId \in userWalletIds(userId) }

\* The table has no unique index on (wallet_id, tx_hash): an insert never fails.
createTransaction(table, tx) == Append(table, tx)

\* Mutant: the heuristic confidence is left in place.
classifyTransactionKeepsConfidence(table, id, classification, userId) ==
    IF getTransaction(table, id, userId) = {} THEN table
    ELSE [ table EXCEPT ![id] =
             [ @ EXCEPT !.classification = classification,
                        !.needsReview = FALSE,
                        !.userClassified = TRUE ] ]

\* Mutant: the review flag is left in place.
classifyTransactionKeepsReview(table, id, classification, userId) ==
    IF getTransaction(table, id, userId) = {} THEN table
    ELSE [ table EXCEPT ![id] =
             [ @ EXCEPT !.classification = classification,
                        !.userClassified = TRUE,
                        !.classificationConfidence = 100 ] ]

classifyTransaction(table, id, classification, userId) ==
    IF getTransaction(table, id, userId) = {} THEN table
    ELSE [ table EXCEPT ![id] =
             [ @ EXCEPT !.classification = classification,
                        !.needsReview = FALSE,
                        !.userClassified = TRUE,
                        !.classificationConfidence = 100 ] ]

-----------------------------------------------------------------------------
(* POST /api/wallets/:id/sync, one storage call per step *)

\* The request slots: two sync requests may be in flight at once.
\* The telegram_links table: u1's chat is verified, u2's is not.
TelegramLinks ==
    { [ userId |-> "u1", telegramChatId |-> "c1", isVerified |-> TRUE,
        notifyOnReview |-> TRUE ],
      [ userId |-> "u2", telegramChatId |-> "c2", isVerified |-> FALSE,
        notifyOnReview |-> TRUE ] }

getTelegramLink(userId) == { l \in TelegramLinks : l.userId = userId }

getTelegramLinkByChatId(chatId) == { l \in TelegramLinks : l.telegramChatId = chatId }

Procs == { "s1", "s2" }

NoResponse == [ status |-> "none" ]

NoReply == [ channel |-> "none" ]

idleSync ==
    [ pc |-> "idle", userId |-> NULL, walletId |-> NULL, result |-> <<>>, i |-> 1,
      imported |-> 0, skipped |-> 0, needsReviewTxs |-> <<>>, status |-> 0,
      error |-> NULL, delivery |-> "none", notified |-> 0, detailed |-> <<>>,
      rollup |-> NoValue, response |-> NoResponse ]

\* After the body of the for loop: the next transaction, or past the loop.
advance(s) ==
    [ s EXCEPT !.i = @ + 1,
               !.pc = IF s.i + 1 > Len(s.result) THEN "respond" ELSE "check" ]

\* The handler up to the loop: getWallet (404 when the wallet is not the
\* user's), the configuration check and fetchTransactions (400 on an error).
SyncStart(p, userId, walletId, upstream) ==
    /\ sync[p].pc = "idle"
    /\ IF getWallet(walletId, userId) = {}
       THEN sync' = [ sync EXCEPT ![p] =
                        [ @ EXCEPT !.pc = "done", !.userId = userId,
                                   !.walletId = walletId, !.status = 404 ] ]
       ELSE LET wallet == walletById(walletId)
                result == fetchResult(upstream, ledger, wallet.address, wallet.chain, walletId)
            IN  IF result.error # NULL
                THEN sync' = [ sync EXCEPT ![p] =
                                 [ @ EXCEPT !.pc = "done", !.userId = userId,
                                            !.walletId = walletId, !.status = 400,
                                            !.error = result.error,
                                            !.response = [ status |-> "error" ] ] ]
                ELSE sync' = [ sync EXCEPT ![p] =
                                 [ @ EXCEPT !.pc = IF Len(result.transactions) = 0
                                                   THEN "respond" ELSE "check",
                                            !.userId = userId,
                                            !.walletId = walletId,
                                            !.result = result.transactions ] ]
    /\ UNCHANGED <<ledger, txs, pipelineVars, rulesVars, taxVars, reply>>

\* const existing = await storage.getTransactionByHash(tx.txHash, userId)
SyncCheck(p) ==
    /\ sync[p].pc = "check"
    /\ LET s == sync[p]
           tx == s.result[s.i]
       IN  IF getTransactionByHash(txs, tx.txHash, s.userId) # {}
           THEN sync' = [ sync EXCEPT ![p] = advance([ s EXCEPT !.skipped = @ + 1 ]) ]
           ELSE sync' = [ sync EXCEPT ![p] = [ s EXCEPT !.pc = "insert" ] ]
    /\ UNCHANGED <<ledger, txs, pipelineVars, rulesVars, taxVars, reply>>

\* const created = await storage.createTransaction(tx); imported++; ...
SyncInsert(p) ==
    /\ sync[p].pc = "insert"
    /\ LET s == sync[p]
           tx == s.result[s.i]
       IN  /\ txs' = createTransaction(txs, tx)
           /\ sync' = [ sync EXCEPT ![p] =
                          advance([ s EXCEPT
                              !.imported = @ + 1,
                              !.needsReviewTxs =
                                  IF tx.needsReview THEN Append(@, Len(txs) + 1) ELSE @ ]) ]
    /\ UNCHANGED <<ledger, pipelineVars, rulesVars, taxVars, reply>>

\* How Telegram stands when a sync notifies: no bot token, every message
\* delivered, sendMessage returning false, or the notification step throwing.
Deliveries == { "not_configured", "delivered", "returns_false", "throws" }

\* Whether the handler tries to notify: transactions to review, a bot token,
\* and a verified link of the user with notifyOnReview.
notifies(s, delivery) ==
    /\ Len(s.needsReviewTxs) > 0
    /\ delivery # "not_configured"
    /\ \E l \in getTelegramLink(s.userId) : l.isVerified /\ l.notifyOnReview

\* Messages delivered: one per transaction up to three, and one more when
\* there are more than three.
messagesFor(n) == IF n > 3 THEN 4 ELSE n

\* A batch that is not cut at three.
toNotifyUncapped(needsReviewTxs) == needsReviewTxs

\* needsReviewTxs.slice(0, 3)
toNotify(needsReviewTxs) ==
    SubSeq(needsReviewTxs, 1, IF Len(needsReviewTxs) > 3 THEN 3 ELSE Len(needsReviewTxs))

\* The count the "...and N more" message reports, when there is one.
rollupCount(n) == IF n > 3 THEN Num(n - 3) ELSE NoValue

\* Whether the handler gets as far as issuing its messages: it notifies, and
\* nothing throws before the first sendMessage.
issues(s, delivery) ==
    notifies(s, delivery) /\ delivery \in { "delivered", "returns_false" }

syncComplete(s) ==
    [ status |-> "sync_complete", walletId |-> s.walletId, imported |-> s.imported,
      skipped |-> s.skipped, total |-> Len(s.result),
      needsReview |-> Len(s.needsReviewTxs) ]

\* A handler whose notification step has no try block of its own: a throw
\* reaches the handler's catch and the request is answered 500.
respondAfterNotifyUncaught(s, delivery) ==
    IF notifies(s, delivery) /\ delivery = "throws"
    THEN [ s EXCEPT !.pc = "done", !.status = 500, !.delivery = delivery,
                    !.response = [ status |-> "error" ] ]
    ELSE [ s EXCEPT !.pc = "done", !.status = 200,
                    !.delivery = IF notifies(s, delivery) THEN delivery ELSE "none",
                    !.notified = IF notifies(s, delivery) /\ delivery = "delivered"
                                 THEN messagesFor(Len(s.needsReviewTxs)) ELSE 0,
                    !.detailed = IF issues(s, delivery)
                                 THEN toNotify(s.needsReviewTxs) ELSE <<>>,
                    !.rollup = IF issues(s, delivery)
                               THEN rollupCount(Len(s.needsReviewTxs)) ELSE NoValue,
                    !.response = syncComplete(s) ]

\* The notification step, in its try block, then res.json.
respondAfterNotify(s, delivery) ==
    [ s EXCEPT !.pc = "done", !.status = 200,
               !.delivery = IF notifies(s, delivery) THEN delivery ELSE "none",
               !.notified = IF notifies(s, delivery) /\ delivery = "delivered"
                            THEN messagesFor(Len(s.needsReviewTxs)) ELSE 0,
               !.detailed = IF issues(s, delivery)
                            THEN toNotify(s.needsReviewTxs) ELSE <<>>,
               !.rollup = IF issues(s, delivery)
                          THEN rollupCount(Len(s.needsReviewTxs)) ELSE NoValue,
               !.response = syncComplete(s) ]

\* Notifications, then
\* res.json({ status: "sync_complete", imported, skipped, total, needsReview })
SyncRespond(p, delivery) ==
    /\ sync[p].pc = "respond"
    /\ sync' = [ sync EXCEPT ![p] = respondAfterNotify(sync[p], delivery) ]
    /\ UNCHANGED <<ledger, txs, pipelineVars, rulesVars, taxVars, reply>>

-----------------------------------------------------------------------------
(* Manual classification: the review endpoint and the Telegram webhook *)

userClassifiedRows(table) == { i \in 1..Len(table) : table[i].userClassified }

\* PATCH /api/transactions/:id/classify; an empty classification is answered 400.
ClassifyRequest(userId, id, classification) ==
    /\ txs' = IF classification = "" THEN txs
              ELSE classifyTransaction(txs, id, classification, userId)
    /\ Cardinality(userClassifiedRows(txs')) <= MaxUserClassified
    /\ UNCHANGED <<ledger, sync, pipelineVars, rulesVars, taxVars, reply>>

\* A Telegram update: a pressed button (its callback data split at ":") or a
\* text message (split at " ").
TelegramUpdates ==
    { [ kind |-> "callback_query", chatId |-> c, parts |-> <<"classify", Num(id), "stake">> ] :
        c \in { "c1", "c2", "c9" }, id \in 0..3 }
    \cup
    { [ kind |-> "message", chatId |-> c, parts |-> <<"Classify", Num(id), "Income">> ] :
        c \in { "c1", "c2" }, id \in 1..3 }
    \cup
    { [ kind |-> "message", chatId |-> "c1", parts |-> <<"income">> ],
      [ kind |-> "message", chatId |-> "c1", parts |-> <<"help">> ] }

validClassifications ==
    { "swap", "income", "airdrop", "stake", "unstake",
      "nft_mint", "expense", "self_transfer", "reward", "interest" }

noUpdate == [ type |-> "none", chatId |-> NULL, transactionId |-> NoValue, classification |-> "" ]

\* parseUpdate, on updates whose text is no six-character verification code.
parseUpdate(update) ==
    IF update.kind = "callback_query"
    THEN IF update.parts[1] = "classify"
         THEN [ type |-> "classification", chatId |-> update.chatId,
                transactionId |-> update.parts[2], classification |-> update.parts[3] ]
         ELSE noUpdate
    ELSE IF toLowerCase(update.parts[1]) = "classify" /\ Len(update.parts) >= 3
         THEN [ type |-> "classification", chatId |-> update.chatId,
                transactionId |-> update.parts[2],
                classification |-> toLowerCase(update.parts[3]) ]
    ELSE IF Len(update.parts) = 1 /\ toLowerCase(update.parts[1]) \in validClassifications
         THEN [ type |-> "classification", chatId |-> update.chatId,
                transactionId |-> NoValue,
                classification |-> toLowerCase(update.parts[1]) ]
    ELSE IF Len(update.parts) = 1 /\ toLowerCase(update.parts[1]) \in { "status", "help" }
         THEN [ type |-> "command", chatId |-> update.chatId,
                transactionId |-> NoValue, classification |-> "" ]
    ELSE noUpdate

\* The table after the webhook has served a parsed update.
webhookClassify(table, parsed) ==
    LET link == getTelegramLinkByChatId(parsed.chatId)
    IN  IF /\ parsed.type = "classification"
           /\ parsed.classification # ""
           /\ \E l \in link : l.isVerified
           /\ parsed.transactionId # NoValue
        THEN classifyTransaction(table, parsed.transactionId[1], parsed.classification,
                                 (CHOOSE l \in link : TRUE).userId)
        ELSE table

\* POST /api/telegram/webhook
TelegramWebhook(update) ==
    /\ txs' = webhookClassify(txs, parseUpdate(update))
    /\ Cardinality(userClassifiedRows(txs')) <= MaxUserClassified
    /\ UNCHANGED <<ledger, sync, pipelineVars, rulesVars, taxVars, reply>>

\* The status PATCH /api/transactions/:id/classify answers with.
classifyStatus(table, id, classification, userId) ==
    IF classification = "" THEN 400
    ELSE IF getTransaction(table, id, userId) = {} THEN 404
    ELSE 200

\* The review endpoint, with its answer recorded.
ClassifyAnswered(userId, id, classification) ==
    /\ txs' = IF classification = "" THEN txs
              ELSE classifyTransaction(txs, id, classification, userId)
    /\ Cardinality(userClassifiedRows(txs')) <= MaxUserClassified
    /\ reply' = [ channel |-> "http", userId |-> userId, transactionId |-> Num(id),
                  status |-> classifyStatus(txs, id, classification, userId) ]
    /\ UNCHANGED <<ledger, sync, pipelineVars, rulesVars, taxVars>>

\* The message the webhook sends to the chat for a parsed update: none when
\* the bot token is missing or the chat has no verified link.
webhookMessage(table, parsed, configured) ==
    LET link == getTelegramLinkByChatId(parsed.chatId)
    IN  IF ~configured \/ ~(\E l \in link : l.isVerified) THEN "none"
        ELSE IF parsed.type = "classification" /\ parsed.classification # ""
             THEN IF parsed.transactionId = NoValue THEN "specify_id"
                  ELSE IF getTransaction(table, parsed.transactionId[1],
                                         (CHOOSE l \in link : TRUE).userId) = {}
                       THEN "not_found"
                       ELSE "classified"
        ELSE IF parsed.type = "command" THEN "command_reply"
        ELSE "none"

\* The webhook, with the message it sends recorded; it answers Telegram 200
\* whatever happens.
WebhookAnswered(update, configured) ==
    /\ txs' = IF configured THEN webhookClassify(txs, parseUpdate(update)) ELSE txs
    /\ Cardinality(userClassifiedRows(txs')) <= MaxUserClassified
    /\ reply' = [ channel |-> "telegram", chatId |-> update.chatId,
                  transactionId |-> parseUpdate(update).transactionId,
                  status |-> 200,
                  message |-> webhookMessage(txs, parseUpdate(update), configured) ]
    /\ UNCHANGED <<ledger, sync, pipelineVars, rulesVars, taxVars>>

-----------------------------------------------------------------------------
(* Classification rules: the classification_rules table and the rule engine *)

\* Rules in the table, together.
MaxRules == 2

\* What POST /api/rules may store.  priority is a nullable integer.
RuleUniverse ==
    { [ userId |-> "u1", contractAddress |-> a, chain |-> NULL,
        classification |-> c, priority |-> p, isActive |-> act ] :
        a \in { NULL, "0xabc" }, c \in { "airdrop", "swap" },
        p \in { NoValue, Num(1), Num(10) }, act \in BOOLEAN }
    \cup
    { [ userId |-> "u2", contractAddress |-> "0xabc", chain |-> NULL,
        classification |-> "stake", priority |-> Num(10), isActive |-> TRUE ] }

createRule(table, rule) == Append(table, rule)

\* updateRule(id, { isActive }, userId)
updateRule(table, id, isActive, userId) ==
    IF id \in 1..Len(table) /\ table[id].userId = userId
    THEN [ table EXCEPT ![id].isActive = isActive ]
    ELSE table

\* ORDER BY priority DESC: a null priority sorts before every number, and
\* rows of equal priority come in any order.
sortsBefore(p, q) == p = NoValue \/ (q # NoValue /\ p[1] >= q[1])

\* An order that sorts by ascending priority.
getRulesAscending(table, userId) ==
    LET ids == { i \in 1..Len(table) : table[i].userId = userId }
    IN  { order \in [1..Cardinality(ids) -> ids] :
            /\ \A i \in ids : \E k \in DOMAIN order : order[k] = i
            /\ \A k \in DOMAIN order, l \in DOMAIN order :
                  k < l => sortsBefore(table[order[l]].priority, table[order[k]].priority) }

\* getRules(userId): the orders in which the query may return the user's
\* rows, each a sequence of row ids.
getRules(table, userId) ==
    LET ids == { i \in 1..Len(table) : table[i].userId = userId }
    IN  { order \in [1..Cardinality(ids) -> ids] :
            /\ \A i \in ids : \E k \in DOMAIN order : order[k] = i
            /\ \A k \in DOMAIN order, l \in DOMAIN order :
                  k < l => sortsBefore(table[order[k]].priority, table[order[l]].priority) }

\* The stored transactions the engine is applied to.
RuleTargets ==
    { [ contractAddress |-> a, chain |-> "ethereum", classification |-> "contract_interaction",
        classificationConfidence |-> 0, needsReview |-> TRUE, userClassified |-> FALSE ] :
        a \in { NULL, "0xabc" } }

\* A rule matches when it sets some criterion and every criterion it sets
\* equals the transaction's field.
ruleMatches(rule, tx) ==
    /\ rule.contractAddress # NULL \/ rule.chain # NULL
    /\ rule.contractAddress # NULL => rule.contractAddress = tx.contractAddress
    /\ rule.chain # NULL => rule.chain = tx.chain

\* An engine that stores the label the way a manual classification is stored.
applyRulesAsManual(table, order, tx) ==
    LET hits == { k \in DOMAIN order :
                    table[order[k]].isActive /\ ruleMatches(table[order[k]], tx) }
    IN  IF hits = {} THEN tx
        ELSE LET first == CHOOSE k \in hits : \A l \in hits : k <= l
             IN  [ tx EXCEPT !.classification = table[order[first]].classification,
                             !.needsReview = FALSE,
                             !.userClassified = TRUE,
                             !.classificationConfidence = 100 ]

\* The engine on the rules as getRules returned them: the first active rule
\* that matches sets the label and clears needsReview.
applyRules(table, order, tx) ==
    LET hits == { k \in DOMAIN order :
                    table[order[k]].isActive /\ ruleMatches(table[order[k]], tx) }
    IN  IF hits = {} THEN tx
        ELSE LET first == CHOOSE k \in hits : \A l \in hits : k <= l
             IN  [ tx EXCEPT !.classification = table[order[first]].classification,
                             !.needsReview = FALSE ]

NoOutcome == [ userId |-> NULL, before |-> NULL, after |-> NULL ]

RulesOff ==
    /\ rules = <<>>
    /\ ruleOutcome = NoOutcome

\* POST /api/rules
CreateRule(rule) ==
    /\ Len(rules) < MaxRules
    /\ rules' = createRule(rules, rule)
    /\ UNCHANGED <<ruleOutcome, taxVars, ledger, txs, sync, pipelineVars, reply>>

\* PATCH /api/rules/:id with { isActive }
UpdateRule(userId, id, isActive) ==
    /\ rules' = updateRule(rules, id, isActive, userId)
    /\ UNCHANGED <<ruleOutcome, taxVars, ledger, txs, sync, pipelineVars, reply>>

\* The engine applied on demand to a transaction of the user.
ApplyRules(userId, tx) ==
    /\ \E order \in getRules(rules, userId) :
          ruleOutcome' = [ userId |-> userId, before |-> tx,
                           after |-> applyRules(rules, order, tx) ]
    /\ UNCHANGED <<rules, taxVars, ledger, txs, sync, pipelineVars, reply>>

-----------------------------------------------------------------------------
(* Tax lots, disposals and the yearly report *)

\* Dates are counted in days from 2024-01-01; the time of day is left out.
\* new Date(year, 0, 1)
yearStart(year) ==
    CASE year = 2023 -> 0 - 365
      [] year = 2024 -> 0
      [] year = 2025 -> 366
      [] year = 2026 -> 731

\* The timestamp column of a transaction row, as a date.
dayOf(timestamp) ==
    CASE timestamp = "2023-12-31" -> 0 - 1
      [] timestamp = "2024-01-01" -> 0
      [] timestamp = "2024-03-01" -> 60
      [] timestamp = "2024-12-31" -> 365
      [] timestamp = "2025-01-01" -> 366
      [] timestamp = "2025-03-01" -> 425

RECURSIVE sumOver(_, _)
sumOver(f, S) ==
    IF S = {} THEN 0
    ELSE LET x == CHOOSE y \in S : TRUE
         IN  f[x] + sumOver(f, S \ { x })

abs(n) == IF n < 0 THEN 0 - n ELSE n

\* A window that includes Jan 1 of the next year.
getDisposalsInclusiveEnd(disposalTable, lotTable, year, userId) ==
    LET walletIds == userWalletIds(userId)
        taxLotIds == { l \in 1..Len(lotTable) : lotTable[l].walletId \in walletIds }
    IN  { d \in 1..Len(disposalTable) :
            /\ disposalTable[d].disposedAt >= yearStart(year)
            /\ disposalTable[d].disposedAt <= yearStart(year + 1)
            /\ disposalTable[d].taxLotId # NoValue
            /\ disposalTable[d].taxLotId[1] \in taxLotIds }

\* getDisposals(year, userId), both given: the ids of the rows returned (they
\* come ordered by disposedAt, latest first).
getDisposals(disposalTable, lotTable, year, userId) ==
    LET walletIds == userWalletIds(userId)
        taxLotIds == { l \in 1..Len(lotTable) : lotTable[l].walletId \in walletIds }
    IN  IF walletIds = {} \/ taxLotIds = {} THEN {}
        ELSE { d \in 1..Len(disposalTable) :
                 /\ disposalTable[d].disposedAt >= yearStart(year)
                 /\ disposalTable[d].disposedAt < yearStart(year + 1)
                 /\ disposalTable[d].taxLotId # NoValue
                 /\ disposalTable[d].taxLotId[1] \in taxLotIds }

\* A label list that takes swaps for income.
incomeClassificationsWithSwap == { "reward", "airdrop", "interest", "income", "swap" }

incomeClassifications == { "reward", "airdrop", "interest", "income" }

\* getReportSummary(year, userId).  The amounts are the strings toFixed(2)
\* gives, counted in hundredths.
getReportSummary(txTable, disposalTable, lotTable, year, userId) ==
    LET yearDisposals == getDisposals(disposalTable, lotTable, year, userId)
        walletIds == userWalletIds(userId)
        reviewCount == IF walletIds = {} THEN 0
                       ELSE Cardinality({ t \in 1..Len(txTable) :
                                /\ txTable[t].walletId \in walletIds
                                /\ txTable[t].needsReview })
        gain(d) == disposalTable[d].gainLossUsd
        shortTermGains == sumOver([ d \in yearDisposals |-> gain(d) ],
            { d \in yearDisposals : disposalTable[d].isShortTerm /\ gain(d) >= 0 })
        shortTermLosses == sumOver([ d \in yearDisposals |-> abs(gain(d)) ],
            { d \in yearDisposals : disposalTable[d].isShortTerm /\ ~(gain(d) >= 0) })
        longTermGains == sumOver([ d \in yearDisposals |-> gain(d) ],
            { d \in yearDisposals : ~disposalTable[d].isShortTerm /\ gain(d) >= 0 })
        longTermLosses == sumOver([ d \in yearDisposals |-> abs(gain(d)) ],
            { d \in yearDisposals : ~disposalTable[d].isShortTerm /\ ~(gain(d) >= 0) })
        incomeTransactions ==
            IF walletIds = {} THEN {}
            ELSE { t \in 1..Len(txTable) :
                     /\ txTable[t].walletId \in walletIds
                     /\ txTable[t].classification \in incomeClassifications
                     /\ dayOf(txTable[t].timestamp) >= yearStart(year)
                     /\ dayOf(txTable[t].timestamp) < yearStart(year + 1) }
        valued == { t \in incomeTransactions : truthyNumber(txTable[t].valueUsd) }
        totalIncome == sumOver([ t \in valued |-> txTable[t].valueUsd[1] ], valued)
    IN  [ totalDisposals |-> Cardinality(yearDisposals),
          shortTermGains |-> shortTermGains,
          shortTermLosses |-> shortTermLosses,
          longTermGains |-> longTermGains,
          longTermLosses |-> longTermLosses,
          netGainLoss |-> (shortTermGains - shortTermLosses) + (longTermGains - longTermLosses),
          totalIncome |-> totalIncome,
          needsReviewCount |-> reviewCount,
          disposals |-> yearDisposals ]

\* The reports asked for: a year and the caller.
ReportKeys == { <<2024, "u1">>, <<2025, "u1">>, <<2024, "u2">> }

NoSummary == [ totalDisposals |-> 0 - 1 ]

TaxOff ==
    /\ taxLots = <<>>
    /\ disposals = <<>>
    /\ summaries = [ k \in ReportKeys |-> NoSummary ]

\* Rows of the three tables the report reads.
MaxReportRows == 2

TaxLot(walletId, tokenSymbol, amount, remainingAmount, costBasisUsd, acquiredAt) ==
    [ walletId |-> walletId, tokenSymbol |-> tokenSymbol, amount |-> amount,
      remainingAmount |-> remainingAmount, costBasisUsd |-> costBasisUsd,
      acquiredAt |-> acquiredAt ]

Disposal(taxLotId, tokenSymbol, amount, proceedsUsd, costBasisUsd, gainLossUsd, isShortTerm, disposedAt) ==
    [ taxLotId |-> taxLotId, tokenSymbol |-> tokenSymbol, amount |-> amount,
      proceedsUsd |-> proceedsUsd, costBasisUsd |-> costBasisUsd,
      gainLossUsd |-> gainLossUsd, isShortTerm |-> isShortTerm,
      disposedAt |-> disposedAt ]

\* A lot of u1's wallet w1 and a lot of u2's wallet w3.
ReportLots ==
    << TaxLot("w1", "ETH", 300, 0, 20000, 0 - 365),
       TaxLot("w3", "ETH", 300, 0, 20000, 0 - 365) >>

\* Disposals of u1's lot with a gain, no gain and a loss, short and long
\* term, on the last day before the year 2024, its first and last day and the
\* first day after it; a disposal of u2's lot; a disposal without a lot.
ReportDisposals ==
    { Disposal(Num(1), "ETH", 100, 10000 + g, 10000, g, short, day) :
        g \in { 0 - 2000, 0, 40000 }, short \in BOOLEAN, day \in { 0 - 1, 0, 365, 366 } }
    \cup
    { Disposal(Num(2), "ETH", 100, 50000, 10000, 40000, TRUE, 60),
      Disposal(NoValue, "ETH", 150, 320000, 280000, 40000, TRUE, 60) }

\* The columns of a transaction row that the report reads.
ReportTx(walletId, classification, timestamp, valueUsd, needsReview) ==
    [ walletId |-> walletId, txHash |-> "h1", classification |-> classification,
      timestamp |-> timestamp, valueUsd |-> valueUsd, needsReview |-> needsReview ]

ReportTxs ==
    { ReportTx("w1", c, t, Num(500), FALSE) :
        c \in { "income", "reward", "airdrop", "interest", "swap" },
        t \in { "2023-12-31", "2024-01-01", "2024-12-31", "2025-01-01" } }
    \cup
    { ReportTx("w1", "income", "2024-03-01", NoValue, FALSE),
      ReportTx("w3", "airdrop", "2024-03-01", Num(700), FALSE),
      ReportTx("w1", "contract_interaction", "2024-03-01", Num(900), TRUE) }

\* Lots in the table, and disposals made from lots.
MaxLots == 2
MaxDisposals == 2

createTaxLot(table, lot) == Append(table, lot)

createDisposal(table, disposal) == Append(table, disposal)

\* The disposals seedDatabase inserts, with no lot; "now" is day 400.
seedDisposals ==
    << Disposal(NoValue, "ETH", 150, 320000, 280000, 40000, TRUE, 400 - 30),
       Disposal(NoValue, "USDC", 500000, 500000, 500000, 0, FALSE, 400 - 45),
       Disposal(NoValue, "DAI", 250000, 248000, 250000, 0 - 2000, TRUE, 400 - 60),
       Disposal(NoValue, "ENS", 5000, 125000, 0, 125000, TRUE, 400 - 90) >>

\* Acquisitions: 1.50 or 3.00 ETH for 2800.00, on day 0, 35 or 36.
LotUniverse ==
    { TaxLot("w1", "ETH", a, a, 280000, day) : a \in { 150, 300 }, day \in { 0, 35, 36 } }

\* The lot-consumption methods an order is defined for.
LotMethods == { "fifo", "lifo", "hifo" }

\* Disposal events: an amount of ETH sold on day 400 for the proceeds, under
\* the method active at the time.
DisposalEvents ==
    { [ walletId |-> "w1", tokenSymbol |-> "ETH", amount |-> a, proceedsUsd |-> p,
        disposedAt |-> 400, method |-> m ] :
        a \in { 100, 150, 300 }, p \in { 320000, 200000 }, m \in LotMethods }

\* The lots a disposal may draw on, oldest acquisition first (FIFO).
openLots(lotTable, walletId, tokenSymbol) ==
    { l \in 1..Len(lotTable) :
        /\ lotTable[l].walletId = walletId
        /\ lotTable[l].tokenSymbol = tokenSymbol
        /\ lotTable[l].remainingAmount > 0 }

oldestLot(lotTable, open) ==
    CHOOSE l \in open :
        \A m \in open :
            \/ lotTable[l].acquiredAt < lotTable[m].acquiredAt
            \/ (lotTable[l].acquiredAt = lotTable[m].acquiredAt /\ l <= m)

\* LIFO: newest acquisition first.
newestLot(lotTable, open) ==
    CHOOSE l \in open :
        \A m \in open :
            \/ lotTable[l].acquiredAt > lotTable[m].acquiredAt
            \/ (lotTable[l].acquiredAt = lotTable[m].acquiredAt /\ l <= m)

\* HIFO: highest cost basis per unit first (c1/a1 > c2/a2 as c1*a2 > c2*a1).
dearestLot(lotTable, open) ==
    CHOOSE l \in open :
        \A m \in open :
            LET left == lotTable[l].costBasisUsd * lotTable[m].amount
                right == lotTable[m].costBasisUsd * lotTable[l].amount
            IN  left > right \/ (left = right /\ l <= m)

\* A selection that takes the oldest lot under every method.
nextLotAlwaysOldest(lotTable, open, method) == oldestLot(lotTable, open)

\* The lot to consume next under the active method.
nextLot(lotTable, open, method) ==
    CASE method = "fifo" -> oldestLot(lotTable, open)
      [] method = "lifo" -> newestLot(lotTable, open)
      [] method = "hifo" -> dearestLot(lotTable, open)

min(a, b) == IF a < b THEN a ELSE b

\* A holding period that counts a year from 365 days on as short.
isShortTermInclusive(acquiredAt, disposedAt) == disposedAt - acquiredAt <= 365

\* isShortTerm = (disposedAt - lot.acquiredAt) < 365 days
isShortTerm(acquiredAt, disposedAt) == disposedAt - acquiredAt < 365

\* A gain that leaves the cost out.
gainLossIgnoringCost(proceedsUsd, costBasisUsd) == proceedsUsd

\* gainLossUsd = proceeds - costBasis
gainLoss(proceedsUsd, costBasisUsd) == proceedsUsd - costBasisUsd

\* A consumption that takes the whole amount from the lot, whatever remains.
consumedFromLotUnchecked(remainingAmount, amountLeft) == amountLeft

\* The amount one lot gives to a disposal: what is asked, at most what remains.
consumedFromLot(remainingAmount, amountLeft) == min(remainingAmount, amountLeft)

\* The aggregator on one disposal event: consume lots in the method's order, spilling
\* into the next lot, and emit one Disposal per lot consumed, with the lot's
\* share of the cost basis and the event's share of the proceeds.
RECURSIVE consumeLots(_, _, _, _)
consumeLots(lotTable, disposalTable, event, amountLeft) ==
    LET open == openLots(lotTable, event.walletId, event.tokenSymbol)
    IN  IF amountLeft <= 0 \/ open = {}
        THEN [ taxLots |-> lotTable, disposals |-> disposalTable ]
        ELSE LET l == nextLot(lotTable, open, event.method)
                 lot == lotTable[l]
                 consumed == consumedFromLot(lot.remainingAmount, amountLeft)
                 proceeds == (event.proceedsUsd * consumed) \div event.amount
                 cost == (lot.costBasisUsd * consumed) \div lot.amount
             IN  consumeLots(
                     [ lotTable EXCEPT ![l].remainingAmount = @ - consumed ],
                     createDisposal(disposalTable,
                         Disposal(Num(l), event.tokenSymbol, consumed, proceeds, cost,
                                  gainLoss(proceeds, cost),
                                  isShortTerm(lot.acquiredAt, event.disposedAt),
                                  event.disposedAt)),
                     event, amountLeft - consumed)

disposalsFromLots(disposalTable) ==
    { d \in 1..Len(disposalTable) : disposalTable[d].taxLotId # NoValue }

\* An acquisition stores a lot with all of its amount remaining.
AcquireLot(lot) ==
    /\ Len(taxLots) < MaxLots
    /\ taxLots' = createTaxLot(taxLots, lot)
    /\ UNCHANGED <<disposals, summaries, rulesVars, ledger, txs, sync, pipelineVars, reply>>

\* A disposal event handled by the aggregator.
DisposeToken(event) ==
    /\ LET after == consumeLots(taxLots, disposals, event, event.amount)
       IN  /\ Cardinality(disposalsFromLots(after.disposals)) <= MaxDisposals
           /\ taxLots' = after.taxLots
           /\ disposals' = after.disposals
    /\ UNCHANGED <<summaries, rulesVars, ledger, txs, sync, pipelineVars, reply>>

\* A report that archives what it has reported.
ReportSummaryArchiving(year, userId) ==
    /\ summaries' = [ summaries EXCEPT ![<<year, userId>>] =
                        getReportSummary(txs, disposals, taxLots, year, userId) ]
    /\ disposals' = SelectSeq(disposals, LAMBDA d :
                        ~(d.disposedAt >= yearStart(year) /\ d.disposedAt < yearStart(year + 1)))
    /\ UNCHANGED <<taxLots, rulesVars, ledger, txs, sync, pipelineVars, reply>>

\* GET /api/reports/summary?year=
ReportSummary(year, userId) ==
    /\ summaries' = [ summaries EXCEPT ![<<year, userId>>] =
                        getReportSummary(txs, disposals, taxLots, year, userId) ]
    /\ UNCHANGED <<taxLots, disposals, rulesVars, ledger, txs, sync, pipelineVars, reply>>

-----------------------------------------------------------------------------
(* Specifications *)

\* The pipeline's one step: fetchTransactions on the two answers.
RunFetch ==
    /\ cpc = "input"
    /\ txMap' = groupTransfers(fromResult, toResult, PipelineWallet.address)
    /\ fetched' = buildTransactions(fromResult, toResult, PipelineWallet.address,
                                    PipelineWallet.chain, PipelineWallet.id)
    /\ cpc' = "done"
    /\ UNCHANGED <<fromResult, toResult, ledger, txs, sync, rulesVars, taxVars, reply>>

SystemOff ==
    /\ ledger = <<>>
    /\ txs = <<>>
    /\ sync = [ p \in Procs |-> idleSync ]
    /\ reply = NoReply

InitClassifier == InitPipeline /\ SystemOff /\ RulesOff /\ TaxOff

NextClassifier == RunFetch

\* The classifier alone, on every pair of answers within the bound.
SpecClassifier == InitClassifier /\ [][NextClassifier]_vars

Init ==
    /\ PipelineOff
    /\ ledger \in Ledgers
    /\ txs = <<>>
    /\ sync = [ p \in Procs |-> idleSync ]
    /\ reply = NoReply
    /\ RulesOff
    /\ TaxOff

ApiLabels == { "expense", "" }

Next ==
    \/ \E p \in Procs, u \in Users, w \in WalletIds, up \in Upstreams :
          SyncStart(p, u, w, up)
    \/ \E p \in Procs : SyncCheck(p)
    \/ \E p \in Procs : SyncInsert(p)
    \/ \E p \in Procs, delivery \in Deliveries : SyncRespond(p, delivery)
    \/ \E u \in Users, id \in 0..Len(txs), c \in ApiLabels : ClassifyRequest(u, id, c)
    \/ \E update \in TelegramUpdates : TelegramWebhook(update)

\* The running system: sync requests may overlap.
Spec == Init /\ [][Next]_vars

noSyncRunning == \A p \in Procs : sync[p].pc \in { "idle", "done" }

NextSequential ==
    \/ \E p \in Procs, u \in Users, w \in WalletIds, up \in Upstreams :
          noSyncRunning /\ SyncStart(p, u, w, up)
    \/ \E p \in Procs : SyncCheck(p)
    \/ \E p \in Procs : SyncInsert(p)
    \/ \E p \in Procs, delivery \in Deliveries : SyncRespond(p, delivery)
    \/ \E u \in Users, id \in 0..Len(txs), c \in ApiLabels : ClassifyRequest(u, id, c)
    \/ \E update \in TelegramUpdates : TelegramWebhook(update)

\* The running system when each sync request is served before the next arrives.
SpecSequential == Init /\ [][NextSequential]_vars

\* Transactions of the chain a review batch is made of.
MaxNotifyTxs == 5

NotifyHashes == << "n1", "n2", "n3", "n4", "n5", "n6" >>

\* Two calls of no value sent by w1 in each transaction: each is held for review.
RECURSIVE notifyChain(_)
notifyChain(k) ==
    IF k = 0 THEN <<>>
    ELSE notifyChain(k - 1)
         \o << Transfer(NotifyHashes[k], "0xaa", "0xdd", Num(0), "ETH", "external"),
                Transfer(NotifyHashes[k], "0xaa", "0xdd", Num(0), "ETH", "external") >>

\* A chain of up to MaxNotifyTxs such transactions, of which an earlier sync
\* of w1 has stored the first few.
InitNotify ==
    /\ PipelineOff /\ RulesOff /\ TaxOff
    /\ \E k \in 0..MaxNotifyTxs, j \in 0..MaxNotifyTxs :
          /\ j <= k
          /\ ledger = notifyChain(k)
          /\ txs = fetchTransactions(notifyChain(j), walletById("w1").address,
                                     walletById("w1").chain, "w1")
    /\ sync = [ p \in Procs |-> idleSync ]
    /\ reply = NoReply

NextNotify ==
    \/ \E p \in Procs, u \in Users, w \in WalletIds, up \in Upstreams :
          noSyncRunning /\ SyncStart(p, u, w, up)
    \/ \E p \in Procs : SyncCheck(p)
    \/ \E p \in Procs : SyncInsert(p)
    \/ \E p \in Procs, delivery \in Deliveries : SyncRespond(p, delivery)

\* Syncs, one after the other, over a chain of transactions held for review.
SpecNotify == InitNotify /\ [][NextNotify]_vars

\* The table after w1 and w3 were synced, on the chain up to some height.
InitReplies ==
    /\ PipelineOff /\ RulesOff /\ TaxOff
    /\ ledger \in Ledgers
    /\ txs = fetchTransactions(ledger, walletById("w1").address, walletById("w1").chain, "w1")
             \o fetchTransactions(ledger, walletById("w3").address, walletById("w3").chain, "w3")
    /\ sync = [ p \in Procs |-> idleSync ]
    /\ reply = NoReply

NextReplies ==
    \/ \E u \in Users, id \in 0..Len(txs), c \in ApiLabels : ClassifyAnswered(u, id, c)
    \/ \E update \in TelegramUpdates, configured \in BOOLEAN : WebhookAnswered(update, configured)

\* Classification requests and their answers, on a stored table.
SpecReplies == InitReplies /\ [][NextReplies]_vars

InitRules == PipelineOff /\ SystemOff /\ RulesOff /\ TaxOff

NextRules ==
    \/ \E rule \in RuleUniverse : CreateRule(rule)
    \/ \E u \in Users, id \in 1..MaxRules, act \in BOOLEAN : UpdateRule(u, id, act)
    \/ \E u \in Users, tx \in RuleTargets : ApplyRules(u, tx)

\* The rules table and the rule engine.
SpecRules == InitRules /\ [][NextRules]_vars

InitReport ==
    /\ PipelineOff
    /\ ledger = <<>>
    /\ sync = [ p \in Procs |-> idleSync ]
    /\ reply = NoReply
    /\ RulesOff
    /\ taxLots = ReportLots
    /\ disposals \in SeqsUpTo(ReportDisposals, MaxReportRows)
    /\ txs \in SeqsUpTo(ReportTxs, MaxReportRows - Len(disposals))
    /\ summaries = [ k \in ReportKeys |-> NoSummary ]

NextReport == \E k \in ReportKeys : ReportSummary(k[1], k[2])

\* The yearly report on every store within the bound.
SpecReport == InitReport /\ [][NextReport]_vars

\* The disposals table is empty or holds what seedDatabase inserts.
InitTax ==
    /\ PipelineOff /\ SystemOff /\ RulesOff
    /\ taxLots = <<>>
    /\ disposals \in { <<>>, seedDisposals }
    /\ summaries = [ k \in ReportKeys |-> NoSummary ]

NextTax ==
    \/ \E lot \in LotUniverse : AcquireLot(lot)
    \/ \E event \in DisposalEvents : DisposeToken(event)

\* Tax lots and the disposals made from them.
SpecTax == InitTax /\ [][NextTax]_vars

-----------------------------------------------------------------------------
(* Claims about the classifier, under SpecClassifier *)

Groups == 1..Len(txMap)

\* The symbols of a list of legs as the classifier compares them: lower case,
\* null symbols left out.
lowerSymbols(legs) ==
    { toLowerCase(legs[k].symbol) : k \in { j \in 1..Len(legs) : legs[j].symbol # NULL } }

hasInbound(i) == Len(txMap[i].tokensIn) > 0
hasOutbound(i) == Len(txMap[i].tokensOut) > 0

\* More than one transfer and no NFT transfer: rules 1 to 3 do not apply.
reachesSwapStep(i) == Len(txMap[i].transfers) > 1 /\ ~txMap[i].hasNft

routerInGroup(i) ==
    \E k \in 1..Len(txMap[i].transfers) :
        \/ toLowerCase(txMap[i].transfers[k].from) \in KNOWN_DEX_ROUTERS
        \/ optLowerCase(txMap[i].transfers[k].to) \in KNOWN_DEX_ROUTERS

labelled(i, classification, confidence) ==
    /\ fetched[i].classification = classification
    /\ fetched[i].classificationConfidence = confidence

\* C1: every group gets a label of CLASSIFICATION_TYPES and a confidence in
\* [0,1].  The code breaks it: "transfer" and "contract_interaction" are no
\* members of the label set.
C1_LabelInFixedSet ==
    cpc = "done" =>
        \A i \in Groups :
            /\ fetched[i].classification \in CLASSIFICATION_TYPES
            /\ fetched[i].classificationConfidence \in 0..100

\* C2: a transaction returned by fetchTransactions needs review if and only if
\* its label is unknown or contract_interaction.
C2_ReviewGating ==
    cpc = "done" =>
        \A i \in Groups :
            fetched[i].needsReview
                <=> fetched[i].classification \in { "unknown", "contract_interaction" }

\* C2 witness: a returned transaction held for review, beside labels that are not.
C2_Witness ==
    /\ cpc = "done"
    /\ \E i \in Groups : fetched[i].needsReview
                         /\ fetched[i].classification = "contract_interaction"

\* C3: a group of one transfer whose two ends are equal, compared without
\* case, is self_transfer with confidence 0.95.
C3_SelfTransferFirst ==
    cpc = "done" =>
        \A i \in Groups :
            LET t == txMap[i].transfers[1]
            IN  ( /\ Len(txMap[i].transfers) = 1
                  /\ t.to # NULL
                  /\ toLowerCase(t.from) = toLowerCase(t.to) )
                => labelled(i, "self_transfer", 95)

\* C3 witness: one transfer from the wallet to itself, spelled in two cases,
\* with an inbound leg (it would match the plain incoming rule too).
C3_Witness ==
    /\ cpc = "done"
    /\ \E i \in Groups :
        /\ Len(txMap[i].transfers) = 1
        /\ txMap[i].transfers[1].from # txMap[i].transfers[1].to
        /\ toLowerCase(txMap[i].transfers[1].from) = optLowerCase(txMap[i].transfers[1].to)
        /\ hasInbound(i)
        /\ fetched[i].classification = "self_transfer"

\* C4 as claimed: inbound and outbound symbol sets that are not equal make the
\* group a swap with confidence 0.80.
C4_SwapWhenSymbolSetsDiffer ==
    cpc = "done" =>
        \A i \in Groups :
            ( /\ reachesSwapStep(i) /\ hasInbound(i) /\ hasOutbound(i)
              /\ lowerSymbols(txMap[i].tokensIn) # lowerSymbols(txMap[i].tokensOut) )
            => labelled(i, "swap", 80)

\* C4 as amended: both symbol sets non-empty and an inbound symbol that is no
\* outbound symbol make the group a swap with confidence 0.80, router or not.
C4_SwapWhenInboundSymbolMissing ==
    cpc = "done" =>
        \A i \in Groups :
            ( /\ reachesSwapStep(i) /\ hasInbound(i) /\ hasOutbound(i)
              /\ lowerSymbols(txMap[i].tokensOut) # {}
              /\ \E sym \in lowerSymbols(txMap[i].tokensIn) :
                    sym \notin lowerSymbols(txMap[i].tokensOut) )
            => labelled(i, "swap", 80)

\* C4 witness: a swap of distinct symbols with no router in the group.
C4_Witness ==
    /\ cpc = "done"
    /\ \E i \in Groups :
        /\ reachesSwapStep(i) /\ hasInbound(i) /\ hasOutbound(i)
        /\ lowerSymbols(txMap[i].tokensIn) = { "dai" }
        /\ lowerSymbols(txMap[i].tokensOut) = { "weth" }
        /\ ~routerInGroup(i)
        /\ fetched[i].classification = "swap"

\* C5: with equal inbound and outbound symbol sets the group is a swap (0.80)
\* when a router is an end of one of its transfers, a transfer (0.90) when not.
C5_SameSymbolsRouterDecides ==
    cpc = "done" =>
        \A i \in Groups :
            ( /\ reachesSwapStep(i) /\ hasInbound(i) /\ hasOutbound(i)
              /\ lowerSymbols(txMap[i].tokensIn) = lowerSymbols(txMap[i].tokensOut) )
            => IF routerInGroup(i) THEN labelled(i, "swap", 80)
                                   ELSE labelled(i, "transfer", 90)

\* C5 witness: WETH in from a router spelled in mixed case, WETH out.
C5_Witness ==
    /\ cpc = "done"
    /\ \E i \in Groups :
        /\ reachesSwapStep(i) /\ hasInbound(i) /\ hasOutbound(i)
        /\ lowerSymbols(txMap[i].tokensIn) = { "weth" }
        /\ lowerSymbols(txMap[i].tokensOut) = { "weth" }
        /\ \E k \in 1..Len(txMap[i].transfers) :
              txMap[i].transfers[k].from = RouterMixedCase
        /\ fetched[i].classification = "swap"

senderIsNull(t) == toLowerCase(t.from) = NULL_ADDRESS

\* C6 as claimed: inbound only, no NFT, some transfer sent by the null address:
\* airdrop with confidence 0.70, for groups of one transfer too.
C6_AirdropFromNullSender ==
    cpc = "done" =>
        \A i \in Groups :
            ( /\ ~txMap[i].hasNft /\ hasInbound(i) /\ ~hasOutbound(i)
              /\ \E k \in 1..Len(txMap[i].transfers) : senderIsNull(txMap[i].transfers[k]) )
            => labelled(i, "airdrop", 70)

nullToWallet(t) ==
    /\ senderIsNull(t)
    /\ optLowerCase(t.to) = toLowerCase(PipelineWallet.address)

\* C6 as amended: a group of several transfers, inbound only, no NFT, with a
\* transfer from the null address to the wallet is an airdrop (0.70); a group
\* of one transfer from the null address to the wallet is a transfer (0.90).
C6_AirdropSeveralTransfers ==
    cpc = "done" =>
        \A i \in Groups :
            /\ ( /\ Len(txMap[i].transfers) > 1
                 /\ ~txMap[i].hasNft /\ hasInbound(i) /\ ~hasOutbound(i)
                 /\ \E k \in 1..Len(txMap[i].transfers) : nullToWallet(txMap[i].transfers[k]) )
               => labelled(i, "airdrop", 70)
            /\ ( Len(txMap[i].transfers) = 1 /\ nullToWallet(txMap[i].transfers[1]) )
               => labelled(i, "transfer", 90)

\* C6 witness: a mint to the wallet beside a receipt from another address.
C6_Witness ==
    /\ cpc = "done"
    /\ \E i \in Groups :
        /\ Len(txMap[i].transfers) > 1
        /\ ~txMap[i].hasNft /\ hasInbound(i) /\ ~hasOutbound(i)
        /\ \E k \in 1..Len(txMap[i].transfers) : nullToWallet(txMap[i].transfers[k])
        /\ \E k \in 1..Len(txMap[i].transfers) : ~senderIsNull(txMap[i].transfers[k])
        /\ fetched[i].classification = "airdrop"

-----------------------------------------------------------------------------
(* Claims about the running system, under Spec and SpecSequential *)

Rows == 1..Len(txs)

ownerOf(row) == (CHOOSE w \in Wallets : w.id = row.walletId).userId

reclassified(row, classification) ==
    /\ row.classification = classification
    /\ row.needsReview = FALSE
    /\ row.userClassified = TRUE
    /\ row.classificationConfidence = 100

\* A Telegram update that names a transaction and a label, from a chat whose
\* link is verified and belongs to the owner of that transaction.
ownersClassifyCommand(update, id) ==
    /\ toLowerCase(update.parts[1]) = "classify"
    /\ Len(update.parts) >= 3
    /\ update.parts[2] = Num(id)
    /\ \E l \in TelegramLinks :
          /\ l.telegramChatId = update.chatId
          /\ l.isVerified
          /\ l.userId = ownerOf(txs[id])

\* The label a Telegram classify command asks for: the button's label as it
\* is, the typed label in lower case.
requested(update) ==
    IF update.kind = "callback_query" THEN update.parts[3]
    ELSE toLowerCase(update.parts[3])

C8_UserClassifiedInvariant ==
    \A i \in Rows :
        txs[i].userClassified
            => txs[i].needsReview = FALSE /\ txs[i].classificationConfidence = 100

\* C8 witness: a user-classified row, and a row a later sync step inserted
\* after it.
C8_Witness ==
    \E i \in Rows, j \in Rows :
        /\ i < j
        /\ txs[i].userClassified
        /\ ~txs[j].userClassified
        /\ txs[j].needsReview

rowsOf(walletId, txHash) ==
    { i \in Rows : txs[i].walletId = walletId /\ txs[i].txHash = txHash }

\* C9: once a sync has answered, every transaction the provider returned for
\* its wallet has exactly one row of that wallet.  The code breaks it: the
\* existence check looks in all wallets of the user.
C9_OneRowPerWalletAndHash ==
    \A p \in Procs :
        ( sync[p].pc = "done" /\ sync[p].status = 200 )
        => \A k \in 1..Len(sync[p].result) :
              Cardinality(rowsOf(sync[p].walletId, sync[p].result[k].txHash)) = 1

\* C10: no two rows share wallet and hash, and of two answered syncs of one
\* wallet at most one has counted a given transaction as imported.  The code
\* breaks it: both syncs find no existing row and both insert.
C10_NoDuplicateUnderRace ==
    /\ \A i \in Rows, j \in Rows :
          ( i # j /\ txs[i].walletId = txs[j].walletId ) => txs[i].txHash # txs[j].txHash
    /\ \A p \in Procs, q \in Procs :
          ( /\ p # q
            /\ sync[p].pc = "done" /\ sync[p].status = 200
            /\ sync[q].pc = "done" /\ sync[q].status = 200
            /\ sync[p].walletId = sync[q].walletId )
          => sync[p].imported + sync[q].imported <= Len(sync[p].result)

-----------------------------------------------------------------------------
(* Claims about the aggregator, under SpecClassifier *)

\* The transfers in the order the loop observes them.
observed == fromResult \o toResult

withHash(transfers, hash) == SelectSeq(transfers, LAMBDA t : t.hash = hash)

inboundOf(t) ==
    /\ t.to # NULL
    /\ toLowerCase(t.to) = toLowerCase(PipelineWallet.address)
    /\ t.value # NoValue /\ t.value[1] # 0
outboundOf(t) ==
    /\ toLowerCase(t.from) = toLowerCase(PipelineWallet.address)
    /\ t.value # NoValue /\ t.value[1] # 0

legsOf(transfers) ==
    [ k \in 1..Len(transfers) |->
        [ address |-> transfers[k].rawContract.address,
          symbol |-> transfers[k].asset,
          amount |-> transfers[k].value[1] ] ]

\* C11: every observed transfer is in the group keyed by its hash and in no
\* other, groups have distinct keys, and a group's transfers, inbound legs and
\* outbound legs are in the order of observation.
C11_GroupingByHash ==
    cpc = "done" =>
        /\ \A k \in 1..Len(observed) : \E i \in Groups : txMap[i].hash = observed[k].hash
        /\ \A i \in Groups, j \in Groups : txMap[i].hash = txMap[j].hash => i = j
        /\ \A i \in Groups :
              /\ txMap[i].transfers = withHash(observed, txMap[i].hash)
              /\ txMap[i].tokensIn =
                    legsOf(SelectSeq(withHash(observed, txMap[i].hash), inboundOf))
              /\ txMap[i].tokensOut =
                    legsOf(SelectSeq(withHash(observed, txMap[i].hash), outboundOf))

\* C11 witness: the "from" answer and the "to" answer each hold one transfer
\* of the same hash, with different inbound legs: one group, two legs.
C11_Witness ==
    /\ cpc = "done"
    /\ Len(fromResult) = 1 /\ Len(toResult) = 1
    /\ \E i \in Groups :
          /\ Len(txMap[i].transfers) = 2
          /\ Len(txMap[i].tokensIn) = 2
          /\ txMap[i].tokensIn[1] # txMap[i].tokensIn[2]

-----------------------------------------------------------------------------
(* Claims about the rule engine, under SpecRules *)

\* The active rules of a user that match a transaction.
activeMatching(userId, tx) ==
    { i \in 1..Len(rules) :
        rules[i].userId = userId /\ rules[i].isActive /\ ruleMatches(rules[i], tx) }

outranksAll(i, others) ==
    /\ rules[i].priority # NoValue
    /\ \A j \in others \ { i } :
          rules[j].priority # NoValue /\ rules[j].priority[1] < rules[i].priority[1]

-----------------------------------------------------------------------------
(* Claims about the yearly report, under SpecReport *)

inYear(day, year) == day >= yearStart(year) /\ day < yearStart(year + 1)

\* The disposals of a user: those whose lot is in a wallet of the user.
disposalsOfUser(userId) ==
    { d \in 1..Len(disposals) :
        /\ disposals[d].taxLotId # NoValue
        /\ disposals[d].taxLotId[1] \in 1..Len(taxLots)
        /\ \E w \in Wallets :
              w.userId = userId /\ w.id = taxLots[disposals[d].taxLotId[1]].walletId }

bucket(userId, year, short, gain) ==
    { d \in disposalsOfUser(userId) :
        /\ inYear(disposals[d].disposedAt, year)
        /\ disposals[d].isShortTerm = short
        /\ (disposals[d].gainLossUsd >= 0) = gain }

bucketTotal(userId, year, short, gain) ==
    sumOver([ d \in 1..Len(disposals) |-> abs(disposals[d].gainLossUsd) ],
            bucket(userId, year, short, gain))

answered(k) == summaries[k] # NoSummary

\* C13: the four totals of a report are the sums over the user's disposals of
\* the year, by term and by sign, losses as absolute values, and netGainLoss
\* is (shortTermGains - shortTermLosses) + (longTermGains - longTermLosses).
C13_FourTotals ==
    \A k \in ReportKeys :
        answered(k) =>
            LET r == summaries[k]
            IN  /\ r.shortTermGains = bucketTotal(k[2], k[1], TRUE, TRUE)
                /\ r.shortTermLosses = bucketTotal(k[2], k[1], TRUE, FALSE)
                /\ r.longTermGains = bucketTotal(k[2], k[1], FALSE, TRUE)
                /\ r.longTermLosses = bucketTotal(k[2], k[1], FALSE, FALSE)
                /\ r.netGainLoss = (r.shortTermGains - r.shortTermLosses)
                                   + (r.longTermGains - r.longTermLosses)

\* C13 witness: two disposals of u1's lot, a short-term loss on the last day
\* of 2024 and a disposal on the first day of 2025; the report of 2024 counts
\* the first only.
C13_Witness ==
    /\ answered(<<2024, "u1">>)
    /\ Len(disposals) = 2
    /\ disposals[1].taxLotId = Num(1) /\ disposals[1].disposedAt = 365
    /\ disposals[2].taxLotId = Num(1) /\ disposals[2].disposedAt = 366
    /\ summaries[<<2024, "u1">>].totalDisposals = 1
    /\ summaries[<<2024, "u1">>].shortTermLosses = 2000
    /\ summaries[<<2024, "u1">>].netGainLoss = 0 - 2000

\* The transactions that count as income of a user in a year.
incomeOfUser(userId, year) ==
    { t \in 1..Len(txs) :
        /\ \E w \in Wallets : w.userId = userId /\ w.id = txs[t].walletId
        /\ txs[t].classification \in { "reward", "airdrop", "interest", "income" }
        /\ inYear(dayOf(txs[t].timestamp), year)
        /\ txs[t].valueUsd # NoValue }

\* C14: totalIncome is the sum of valueUsd over the transactions of the
\* user's wallets labelled reward, airdrop, interest or income and dated in
\* the year, whatever lots and disposals are stored.
C14_TotalIncome ==
    \A k \in ReportKeys :
        answered(k) =>
            summaries[k].totalIncome =
                sumOver([ t \in 1..Len(txs) |-> txs[t].valueUsd[1] ], incomeOfUser(k[2], k[1]))

\* C14 witness: an income transaction of 2024 with a value, next to a stored
\* disposal with a gain; the report of 2024 has that value as income.
C14_Witness ==
    /\ answered(<<2024, "u1">>)
    /\ Len(txs) = 1 /\ txs[1].classification = "interest"
    /\ Len(disposals) = 1 /\ disposals[1].gainLossUsd = 40000
    /\ summaries[<<2024, "u1">>].totalIncome = 500

\* C15: a report changes no wallet, transaction, rule, lot or disposal, and a
\* report asked again gives the totals it gave before.
C15_ReportIsPureRead ==
    [][ \A k \in ReportKeys :
            ReportSummary(k[1], k[2])
            => /\ UNCHANGED <<txs, rules, taxLots, disposals>>
               /\ answered(k) => summaries'[k] = summaries[k]
      ]_vars

\* C15 witness: every report has been answered over a store with a disposal
\* and an income transaction of the year.
C15_Witness ==
    /\ \A k \in ReportKeys : answered(k)
    /\ summaries[<<2024, "u1">>].totalDisposals = 1
    /\ summaries[<<2024, "u1">>].totalIncome = 500

-----------------------------------------------------------------------------
(* Claims about tax lots and disposals, under SpecTax *)

\* C16: every stored disposal has gainLossUsd = proceedsUsd - costBasisUsd.
C16_GainIsProceedsMinusCost ==
    \A d \in 1..Len(disposals) :
        disposals[d].gainLossUsd = disposals[d].proceedsUsd - disposals[d].costBasisUsd

\* C16 witness: next to the seeded disposals, a disposal made from a lot, with
\* a loss.
C16_Witness ==
    /\ Len(disposals) > Len(seedDisposals)
    /\ \E d \in 1..Len(disposals) :
          /\ disposals[d].taxLotId # NoValue
          /\ disposals[d].gainLossUsd < 0
          /\ disposals[d].costBasisUsd > 0

\* C17: every lot has 0 <= remainingAmount <= amount, no step raises a lot's
\* remainingAmount, and no step removes a lot, emptied or not.
C17_LotRemainingAmount ==
    [][ /\ \A l \in 1..Len(taxLots') :
              0 <= taxLots'[l].remainingAmount
              /\ taxLots'[l].remainingAmount <= taxLots'[l].amount
        /\ Len(taxLots') >= Len(taxLots)
        /\ \A l \in 1..Len(taxLots) :
              /\ taxLots'[l].remainingAmount <= taxLots[l].remainingAmount
              /\ [ taxLots'[l] EXCEPT !.remainingAmount = 0 ]
                    = [ taxLots[l] EXCEPT !.remainingAmount = 0 ]
      ]_vars

\* C17 witness: the older lot emptied and still stored, the newer one partly
\* consumed by the same disposal event.
C17_Witness ==
    /\ Len(taxLots) = 2
    /\ \E l \in 1..2, m \in 1..2 :
          /\ taxLots[l].remainingAmount = 0
          /\ taxLots[m].remainingAmount > 0
          /\ taxLots[m].remainingAmount < taxLots[m].amount
    /\ \E d \in 1..Len(disposals), e \in 1..Len(disposals) :
          /\ disposals[d].taxLotId # NoValue /\ disposals[e].taxLotId # NoValue
          /\ disposals[d].taxLotId # disposals[e].taxLotId

\* C18: a disposal made from a lot is short-term if and only if it comes less
\* than 365 days after the lot's acquisition.
C18_ShortTermUnderOneYear ==
    \A d \in 1..Len(disposals) :
        disposals[d].taxLotId # NoValue =>
            ( disposals[d].isShortTerm
              <=> disposals[d].disposedAt
                    - taxLots[disposals[d].taxLotId[1]].acquiredAt < 365 )

\* C18 witness: 1.50 ETH acquired for 2800.00 and sold 400 days later for
\* 3200.00: gain 400.00, long-term; and a disposal exactly 365 days after the
\* acquisition, long-term too.
C18_Witness ==
    /\ \E d \in 1..Len(disposals) :
          /\ disposals[d].taxLotId # NoValue
          /\ disposals[d].amount = 150
          /\ disposals[d].proceedsUsd = 320000
          /\ disposals[d].costBasisUsd = 280000
          /\ disposals[d].gainLossUsd = 40000
          /\ disposals[d].isShortTerm = FALSE
          /\ disposals[d].disposedAt - taxLots[disposals[d].taxLotId[1]].acquiredAt = 400
    /\ \E d \in 1..Len(disposals) :
          /\ disposals[d].taxLotId # NoValue
          /\ disposals[d].disposedAt - taxLots[disposals[d].taxLotId[1]].acquiredAt = 365
          /\ disposals[d].isShortTerm = FALSE

-----------------------------------------------------------------------------
(* Claims about failures during a sync, under Spec *)

\* C19: a sync of a wallet of the caller that finds the provider not
\* configured, or one of the two page requests failing, ends there with an
\* error response, has imported nothing, and leaves the table as it was.
C19_UpstreamFailureImportsNothing ==
    [][ /\ \A p \in Procs, u \in Users, w \in WalletIds, up \in Upstreams \ { "ok" } :
              ( SyncStart(p, u, w, up) /\ getWallet(w, u) # {} )
              => /\ txs' = txs
                 /\ sync'[p].pc = "done"
                 /\ sync'[p].response = [ status |-> "error" ]
                 /\ sync'[p].status = 400
        /\ \A p \in Procs :
              sync'[p].error # NULL
              => /\ sync'[p].pc = "done"
                 /\ sync'[p].imported = 0
                 /\ sync'[p].response.status # "sync_complete"
      ]_vars

\* C19 witness: one sync of w1 imported the two transactions of the wallet,
\* another sync of w1 met a failing page request and answered 400; the table
\* holds the two rows of the first.
C19_Witness ==
    \E p \in Procs, q \in Procs :
        /\ sync[p].walletId = "w1" /\ sync[q].walletId = "w1"
        /\ sync[p].error = "fetch_failed" /\ sync[p].status = 400
        /\ sync[p].imported = 0
        /\ sync[q].status = 200 /\ sync[q].imported = 2
        /\ Len(txs) = 2

\* C20: whatever becomes of the notifications, the step that sends them leaves
\* the table as it was and answers sync_complete with the imported, skipped,
\* total and needsReview counts the loop arrived at.
C20_NotificationFailureIsHarmless ==
    [][ \A p \in Procs, delivery \in Deliveries :
            SyncRespond(p, delivery)
            => /\ txs' = txs
               /\ sync'[p].status = 200
               /\ sync'[p].response =
                     [ status |-> "sync_complete", walletId |-> sync[p].walletId,
                       imported |-> sync[p].imported, skipped |-> sync[p].skipped,
                       total |-> Len(sync[p].result),
                       needsReview |-> Len(sync[p].needsReviewTxs) ]
      ]_vars

\* C20 witness: a sync of u1 imported two transactions, one of them held for
\* review; the notification threw, and the sync answered sync_complete with
\* imported 2 and needsReview 1; the rows are stored.
C20_Witness ==
    \E p \in Procs :
        /\ sync[p].delivery = "throws"
        /\ sync[p].notified = 0
        /\ sync[p].response.status = "sync_complete"
        /\ sync[p].response.imported = 2
        /\ sync[p].response.needsReview = 1
        /\ \A k \in 1..Len(sync[p].needsReviewTxs) :
              /\ sync[p].needsReviewTxs[k] \in 1..Len(txs)
              /\ txs[sync[p].needsReviewTxs[k]].txHash = "h2"

-----------------------------------------------------------------------------
(* Claims about the later classifier rules, under SpecClassifier *)

transfersOf(i) == { txMap[i].transfers[k] : k \in 1..Len(txMap[i].transfers) }

nftTransfer(t) == t.category \in { "erc721", "erc1155" }

\* C21 as claimed: a group of several transfers with an NFT transfer is
\* nft_mint (0.90) when any of its transfers is sent by the null address, and
\* nft_sale (0.70) otherwise.
C21_NftMintWhenAnyFromNull ==
    cpc = "done" =>
        \A i \in Groups :
            ( Len(txMap[i].transfers) > 1 /\ \E t \in transfersOf(i) : nftTransfer(t) )
            => IF \E t \in transfersOf(i) : senderIsNull(t)
               THEN labelled(i, "nft_mint", 90)
               ELSE labelled(i, "nft_sale", 70)

\* C21 as amended: a group of several transfers with an NFT transfer is
\* nft_mint (0.90) when one of its NFT transfers is sent by the null address,
\* and nft_sale (0.70) otherwise, whatever its legs.
C21_NftMintWhenNftFromNull ==
    cpc = "done" =>
        \A i \in Groups :
            ( Len(txMap[i].transfers) > 1 /\ \E t \in transfersOf(i) : nftTransfer(t) )
            => IF \E t \in transfersOf(i) : nftTransfer(t) /\ senderIsNull(t)
               THEN labelled(i, "nft_mint", 90)
               ELSE labelled(i, "nft_sale", 70)

\* C21 witness: an NFT received from another address beside a token minted to
\* the wallet by the null address: an nft_sale, with an inbound leg.
C21_Witness ==
    /\ cpc = "done"
    /\ \E i \in Groups :
        /\ Len(txMap[i].transfers) > 1
        /\ \E t \in transfersOf(i) : nftTransfer(t) /\ ~senderIsNull(t)
        /\ \E t \in transfersOf(i) : ~nftTransfer(t) /\ senderIsNull(t)
        /\ hasInbound(i)
        /\ labelled(i, "nft_sale", 70)

internalTransfer(t) == t.category = "internal"

\* No NFT transfer, inbound legs only, no transfer sent by the null address.
plainInbound(i) ==
    /\ \A t \in transfersOf(i) : ~nftTransfer(t) /\ ~senderIsNull(t)
    /\ hasInbound(i) /\ ~hasOutbound(i)

\* No NFT transfer, outbound legs only.
plainOutbound(i) ==
    /\ \A t \in transfersOf(i) : ~nftTransfer(t)
    /\ hasOutbound(i) /\ ~hasInbound(i)

\* C22 as claimed: a group without NFT transfers, inbound only, with no
\* transfer from the null address, is reward (0.60) exactly when one of its
\* transfers is internal and transfer (0.90) otherwise, for groups of one
\* transfer too; outbound only is transfer (0.90).
C22_RewardIffInternal ==
    cpc = "done" =>
        \A i \in Groups :
            /\ plainInbound(i)
               => IF \E t \in transfersOf(i) : internalTransfer(t)
                  THEN labelled(i, "reward", 60)
                  ELSE labelled(i, "transfer", 90)
            /\ plainOutbound(i) => labelled(i, "transfer", 90)

\* C22 as amended: with several transfers the group is reward (0.60) exactly
\* when one of its transfers is internal and transfer (0.90) otherwise; a
\* group of one transfer is transfer (0.90), internal or not; outbound only is
\* transfer (0.90).
C22_RewardSeveralTransfers ==
    cpc = "done" =>
        \A i \in Groups :
            /\ ( plainInbound(i) /\ Len(txMap[i].transfers) > 1 )
               => IF \E t \in transfersOf(i) : internalTransfer(t)
                  THEN labelled(i, "reward", 60)
                  ELSE labelled(i, "transfer", 90)
            /\ ( plainInbound(i) /\ Len(txMap[i].transfers) = 1 )
               => labelled(i, "transfer", 90)
            /\ plainOutbound(i) => labelled(i, "transfer", 90)

\* C22 witness: an internal transfer to the wallet beside a token receipt, in
\* one group, labelled reward.
C22_Witness ==
    /\ cpc = "done"
    /\ \E i \in Groups :
        /\ plainInbound(i)
        /\ Len(txMap[i].transfers) > 1
        /\ \E t \in transfersOf(i) : internalTransfer(t)
        /\ \E t \in transfersOf(i) : ~internalTransfer(t)
        /\ labelled(i, "reward", 60)

\* Rules 1 to 9 pass the group by: it is not a single transfer with equal
\* ends or touching the wallet, it has no NFT transfer and no leg.
onlyLastRulesLeft(i) ==
    /\ ~( /\ Len(txMap[i].transfers) = 1
          /\ \/ sameEnds(txMap[i].transfers[1])
             \/ touchesWallet(txMap[i].transfers[1], toLowerCase(PipelineWallet.address)) )
    /\ \A t \in transfersOf(i) : ~nftTransfer(t)
    /\ ~hasInbound(i) /\ ~hasOutbound(i)

\* C23: a group left to the last two rules is contract_interaction exactly
\* when one of its transfers carries a contract address and unknown when
\* none does, with confidence 0.0 and needsReview = true either way.  The code
\* breaks it: it never asks for the contract address and never answers
\* unknown for a group.
C23_ContractInteractionIffContractAddress ==
    cpc = "done" =>
        \A i \in Groups :
            onlyLastRulesLeft(i)
            => /\ IF \E t \in transfersOf(i) : t.rawContract.address # NULL
                  THEN labelled(i, "contract_interaction", 0)
                  ELSE labelled(i, "unknown", 0)
               /\ fetched[i].needsReview = TRUE

-----------------------------------------------------------------------------
(* Claims about legs and flags, under SpecClassifier *)

valueless(t) == t.value = NoValue \/ t.value[1] = 0

toWallet(t) ==
    t.to # NULL /\ toLowerCase(t.to) = toLowerCase(PipelineWallet.address)
fromWallet(t) == toLowerCase(t.from) = toLowerCase(PipelineWallet.address)

positionsOf(i, test(_)) == { k \in 1..Len(txMap[i].transfers) : test(txMap[i].transfers[k]) }

addsInboundLeg(t) == toWallet(t) /\ ~valueless(t)
addsOutboundLeg(t) == fromWallet(t) /\ ~valueless(t)
carriesContract(t) == t.rawContract.address # NULL
nftFromNull(t) == nftTransfer(t) /\ senderIsNull(t)

\* C24: a group has one inbound leg for each of its transfers received by the
\* wallet with a non-null, non-zero amount, one outbound leg for each sent by
\* the wallet with such an amount, and no other leg; its four flags are set
\* by any of its transfers, those with a null or zero amount included.
C24_LegsAndFlags ==
    cpc = "done" =>
        \A i \in Groups :
            /\ Len(txMap[i].tokensIn) = Cardinality(positionsOf(i, addsInboundLeg))
            /\ Len(txMap[i].tokensOut) = Cardinality(positionsOf(i, addsOutboundLeg))
            /\ txMap[i].hasNft <=> positionsOf(i, nftTransfer) # {}
            /\ txMap[i].nftMint <=> positionsOf(i, nftFromNull) # {}
            /\ txMap[i].isInternal <=> positionsOf(i, internalTransfer) # {}
            /\ txMap[i].contractInteraction <=> positionsOf(i, carriesContract) # {}

\* C24 witness: an NFT minted to the wallet with no amount and an internal
\* call of amount zero, in one group: no leg, all four flags set.
C24_Witness ==
    /\ cpc = "done"
    /\ \E i \in Groups :
        /\ \A t \in transfersOf(i) : valueless(t) /\ toWallet(t)
        /\ txMap[i].tokensIn = <<>> /\ txMap[i].tokensOut = <<>>
        /\ txMap[i].hasNft /\ txMap[i].nftMint
        /\ txMap[i].isInternal /\ txMap[i].contractInteraction

-----------------------------------------------------------------------------
(* Claims about what a rule application stores, under SpecRules *)

\* C25: applying the rules to a transaction that some active rule of the user
\* matches gives it the label of one of those rules, needsReview = false and
\* userClassified = false; when no active rule matches, the transaction is
\* left as it was.
C25_RuleApplicationEffect ==
    [][ \A u \in Users, tx \in RuleTargets :
            ApplyRules(u, tx)
            => IF activeMatching(u, tx) = {}
               THEN ruleOutcome'.after = tx
               ELSE /\ \E i \in activeMatching(u, tx) :
                          ruleOutcome'.after.classification = rules[i].classification
                    /\ ruleOutcome'.after.needsReview = FALSE
                    /\ ruleOutcome'.after.userClassified = FALSE
      ]_vars

\* C25 witness: a transaction held for review got the label of the one active
\* rule matching it, beside an inactive matching rule of higher priority; it
\* is no longer held for review and not marked user-classified.
C25_Witness ==
    /\ ruleOutcome.userId = "u1"
    /\ Len(rules) = 2
    /\ \E i \in 1..2, j \in 1..2 :
          /\ rules[i].isActive /\ rules[i].classification = "airdrop"
          /\ rules[i].priority = Num(1)
          /\ ~rules[j].isActive /\ rules[j].classification = "swap"
          /\ rules[j].priority = Num(10)
          /\ rules[i].userId = "u1" /\ rules[j].userId = "u1"
          /\ ruleMatches(rules[i], ruleOutcome.before)
          /\ ruleMatches(rules[j], ruleOutcome.before)
    /\ ruleOutcome.before.needsReview = TRUE
    /\ ruleOutcome.after.classification = "airdrop"
    /\ ruleOutcome.after.needsReview = FALSE
    /\ ruleOutcome.after.userClassified = FALSE

-----------------------------------------------------------------------------
(* Claims about the order of lot consumption, under SpecTax *)

\* Lot l comes before lot m under the method.
precedes(l, m, method) ==
    CASE method = "fifo" -> taxLots[l].acquiredAt < taxLots[m].acquiredAt
      [] method = "lifo" -> taxLots[l].acquiredAt > taxLots[m].acquiredAt
      [] method = "hifo" -> taxLots[l].costBasisUsd * taxLots[m].amount
                              > taxLots[m].costBasisUsd * taxLots[l].amount

\* What a step takes from lot l.
taken(l) == taxLots[l].remainingAmount - taxLots'[l].remainingAmount

newDisposals == { d \in Len(disposals) + 1 .. Len(disposals') : TRUE }

\* C26: a disposal takes from a lot only when every lot of the token that
\* comes before it under the active method is exhausted; what is taken from a
\* lot is what its remainingAmount decreases by, never more than remained;
\* and each lot taken from gets one new Disposal record, of the amount taken.
C26_ConsumptionOrder ==
    [][ \A event \in DisposalEvents :
            DisposeToken(event)
            => /\ Len(taxLots') = Len(taxLots)
               /\ \A l \in 1..Len(taxLots) :
                     /\ taken(l) >= 0
                     /\ taxLots'[l].remainingAmount >= 0
                     /\ taxLots'[l] = [ taxLots[l] EXCEPT !.remainingAmount = @ - taken(l) ]
                     /\ Cardinality({ d \in newDisposals : disposals'[d].taxLotId = Num(l) })
                           = IF taken(l) > 0 THEN 1 ELSE 0
                     /\ \A d \in newDisposals :
                           disposals'[d].taxLotId = Num(l) => disposals'[d].amount = taken(l)
               /\ \A d \in newDisposals :
                     /\ disposals'[d].taxLotId # NoValue
                     /\ disposals'[d].taxLotId[1] \in 1..Len(taxLots)
               /\ \A l \in 1..Len(taxLots), m \in 1..Len(taxLots) :
                     ( /\ taxLots[l].remainingAmount > 0
                       /\ taxLots[l].tokenSymbol = taxLots[m].tokenSymbol
                       /\ taxLots[l].walletId = taxLots[m].walletId
                       /\ precedes(l, m, event.method)
                       /\ taken(m) > 0 )
                     => taxLots'[l].remainingAmount = 0
      ]_vars

\* C26 witness: 3.00 ETH acquired on day 0 and 1.50 ETH on day 35 for the same
\* cost; a disposal of 3.00 took the newer, dearer lot whole and then 1.50 of
\* the older one, with one Disposal for each.
C26_Witness ==
    /\ Len(taxLots) = 2
    /\ taxLots[1].amount = 300 /\ taxLots[1].acquiredAt = 0
    /\ taxLots[1].remainingAmount = 150
    /\ taxLots[2].amount = 150 /\ taxLots[2].acquiredAt = 35
    /\ taxLots[2].remainingAmount = 0
    /\ \E d \in 1..Len(disposals), e \in 1..Len(disposals) :
          /\ d < e
          /\ disposals[d].taxLotId = Num(2) /\ disposals[d].amount = 150
          /\ disposals[e].taxLotId = Num(1) /\ disposals[e].amount = 150

-----------------------------------------------------------------------------
(* Claims about review notifications, under SpecNotify *)

linkEnabled(userId) ==
    \E l \in TelegramLinks : l.userId = userId /\ l.isVerified /\ l.notifyOnReview

firstOf(seq, n) == SubSeq(seq, 1, IF Len(seq) > n THEN n ELSE Len(seq))

\* The transactions to review are the rows this sync inserted with
\* needsReview = true: a check, skipping or not, adds none.
collectsNewRowsOnly ==
    /\ \A p \in Procs : SyncCheck(p) => sync'[p].needsReviewTxs = sync[p].needsReviewTxs
    /\ \A p \in Procs :
          SyncInsert(p)
          => sync'[p].needsReviewTxs =
                IF txs'[Len(txs')].needsReview
                THEN Append(sync[p].needsReviewTxs, Len(txs'))
                ELSE sync[p].needsReviewTxs

\* With n transactions to review: the first min(3, n) are notified one by
\* one, and a rollup reporting n - 3 is sent exactly when n > 3.
cappedAtThree(p) ==
    LET n == Len(sync[p].needsReviewTxs)
    IN  /\ sync'[p].detailed = firstOf(sync[p].needsReviewTxs, 3)
        /\ sync'[p].rollup # NoValue <=> n > 3
        /\ n > 3 => sync'[p].rollup = Num(n - 3)

-----------------------------------------------------------------------------
(* Claims about repeated syncs, under SpecSequential *)

syncStep ==
    \/ \E p \in Procs, u \in Users, w \in WalletIds, up \in Upstreams : SyncStart(p, u, w, up)
    \/ \E p \in Procs : SyncCheck(p) \/ SyncInsert(p)
    \/ \E p \in Procs, delivery \in Deliveries : SyncRespond(p, delivery)

completed(s, walletId) ==
    s.pc = "done" /\ s.status = 200 /\ s.walletId = walletId

\* C28: a sync of a wallet that follows a completed sync of the same wallet,
\* over the same chain data, answers imported = 0 and skipped = total; and no
\* step of a sync changes a row that is already stored.
C28_SyncIdempotentAndFrame ==
    [][ /\ \A p \in Procs, q \in Procs, delivery \in Deliveries :
              ( /\ p # q
                /\ completed(sync[p], sync[q].walletId)
                /\ SyncRespond(q, delivery) )
              => /\ sync'[q].response.imported = 0
                 /\ sync'[q].response.skipped = sync'[q].response.total
                 /\ txs' = txs
        /\ syncStep
           => /\ Len(txs') >= Len(txs)
              /\ \A i \in 1..Len(txs) : txs'[i] = txs[i]
      ]_vars

\* C28 witness: a sync of w1 imported two transactions, a second sync of w1
\* skipped both, and the row of h1, classified by the user, is as the user
\* left it.
C28_Witness ==
    \E p \in Procs, q \in Procs :
        /\ p # q
        /\ completed(sync[p], "w1") /\ sync[p].imported = 2
        /\ completed(sync[q], "w1") /\ sync[q].imported = 0 /\ sync[q].skipped = 2
        /\ Len(txs) = 2
        /\ txs[1].txHash = "h1" /\ txs[1].userClassified
        /\ txs[1].classification = "expense" /\ txs[1].classificationConfidence = 100

-----------------------------------------------------------------------------
(* Claims about refused classification requests, under SpecReplies *)

\* A Telegram classify command naming row id.
classifyCommandFor(update, id) ==
    /\ toLowerCase(update.parts[1]) = "classify"
    /\ Len(update.parts) >= 3
    /\ update.parts[2] = Num(id)

verifiedLinks(chatId) ==
    { l \in TelegramLinks : l.telegramChatId = chatId /\ l.isVerified }

\* The chat may not classify the row: its link is missing, unverified, or of
\* another user than the row's owner.
chatMayNot(chatId, id) ==
    \A l \in verifiedLinks(chatId) : l.userId # ownerOf(txs[id])

\* C29 as claimed: a request for a row that is not the requester's, through
\* the endpoint or a Telegram command, leaves the row as it was and is
\* answered as not found.
C29_RefusedAsNotFound ==
    [][ /\ \A u \in Users, id \in Rows, c \in ApiLabels \ { "" } :
              ( ownerOf(txs[id]) # u /\ ClassifyAnswered(u, id, c) )
              => txs'[id] = txs[id] /\ reply'.status = 404
        /\ \A update \in TelegramUpdates, id \in Rows :
              ( /\ classifyCommandFor(update, id) /\ chatMayNot(update.chatId, id)
                /\ WebhookAnswered(update, TRUE) )
              => txs'[id] = txs[id] /\ reply'.message = "not_found"
      ]_vars

\* C29 as amended: the row is left as it was in every such case; the endpoint
\* answers 404; the webhook sends the not-found message when the chat's link
\* is verified and of another user, and sends nothing when the link is
\* missing or unverified, or the bot token is not set.
C29_RefusedRowUnchanged ==
    [][ /\ \A u \in Users, id \in Rows, c \in ApiLabels \ { "" } :
              ( ownerOf(txs[id]) # u /\ ClassifyAnswered(u, id, c) )
              => txs'[id] = txs[id] /\ reply'.status = 404
        /\ \A update \in TelegramUpdates, id \in Rows, configured \in BOOLEAN :
              ( /\ classifyCommandFor(update, id) /\ chatMayNot(update.chatId, id)
                /\ WebhookAnswered(update, configured) )
              => /\ txs'[id] = txs[id]
                 /\ reply'.message =
                       IF configured /\ verifiedLinks(update.chatId) # {}
                       THEN "not_found" ELSE "none"
      ]_vars

\* C29 witness: u1's verified chat asked to classify the row of u2's wallet
\* and was told it was not found; the row is as the sync stored it, while a
\* row of u1 has been classified.
C29_Witness ==
    /\ reply.channel = "telegram" /\ reply.chatId = "c1"
    /\ reply.transactionId = Num(3) /\ reply.message = "not_found"
    /\ Len(txs) = 3
    /\ txs[3].walletId = "w3" /\ ~txs[3].userClassified
    /\ txs[3].classification = "transfer"
    /\ \E i \in Rows : txs[i].walletId = "w1" /\ txs[i].userClassified

-----------------------------------------------------------------------------
(* Claims about the merge of the two answers, under SpecClassifier *)

elementsOf(seq) == { seq[k] : k \in 1..Len(seq) }

\* A transfer the wallet sends to itself: both queries return it.
returnedByBoth(t) ==
    /\ fromWallet(t) /\ toWallet(t)
    /\ t \in elementsOf(fromResult) /\ t \in elementsOf(toResult)

\* The "to" answer without the transfers the "from" answer already holds.
toResultOnce == SelectSeq(toResult, LAMBDA t : ~returnedByBoth(t))

\* C30: a transfer returned by both queries is once in its group's transfers
\* and the rows built are those built when it is returned by one query only.
\* The code breaks it: the two answers are concatenated, so the transfer and
\* its legs are counted twice.
C30_MergeCountsEachTransferOnce ==
    cpc = "done" =>
        /\ \A i \in Groups :
              \A t \in transfersOf(i) :
                  returnedByBoth(t)
                  => Cardinality(positionsOf(i, LAMBDA x : x = t)) = 1
        /\ fetched = buildTransactions(fromResult, toResultOnce, PipelineWallet.address,
                                       PipelineWallet.chain, PipelineWallet.id)

=============================================================================
